---- MODULE Spec2Model ----
(***************************************************************************)
(* Model of the screenshot-ingestion pipeline of                           *)
(* scripts/tweet-processor/process-tweets.js (the newest generation: the    *)
(* one with confidence routing and auto-research).                          *)
(*                                                                          *)
(* Strings the code inspects character by character (file names, titles)    *)
(* are sequences of one-character strings.  Numbers in [0,1] (confidence,   *)
(* relevance) are hundredths: 0.7 is 70.                                    *)
(***************************************************************************)
EXTENDS Integers, Sequences, FiniteSets, TLC

\* ------------------------------------------------------------------ bounds
\* Number of processes (runs of main) started one after another.
MaxRuns == 2

\* ------------------------------------------------------- program constants
\* CONFIG.confidenceThreshold, CONFIG.researchRelevanceThreshold (hundredths)
ConfidenceThreshold == 70
ResearchRelevanceThreshold == 60
\* relevance given by the unfiltered passthrough of filterResearchResults
FallbackRelevance == 50
\* .substring(0, 50) of saveNote
MaxStem == 50

\* CONFIG directories
unsureDir == "00 - Inbox/Xeets to Review"
resourcesDir == "03 - Resources/X Insights"
projectsDir == "01 - Projects/Ideas"
screenshotsDir == "Attachments/Xeets"

\* ------------------------------------------------------------ text helpers
UpperChars == <<"A","B","C","D","E","F","G","H","I","J","K","L","M",
                "N","O","P","Q","R","S","T","U","V","W","X","Y","Z">>
LowerChars == <<"a","b","c","d","e","f","g","h","i","j","k","l","m",
                "n","o","p","q","r","s","t","u","v","w","x","y","z">>
DigitChars == {"0","1","2","3","4","5","6","7","8","9"}

Range(s) == {s[i] : i \in DOMAIN s}

\* String.prototype.toLowerCase on one character
ToLowerChar(c) ==
  IF \E i \in DOMAIN UpperChars : UpperChars[i] = c
  THEN LowerChars[CHOOSE i \in DOMAIN UpperChars : UpperChars[i] = c]
  ELSE c

ToLowerCase(s) == [i \in DOMAIN s |-> ToLowerChar(s[i])]

\* the character class [a-z0-9]
IsAlnum(c) == c \in Range(LowerChars) \cup DigitChars

\* s ends with suffix suf, compared case-insensitively (the $ and i of the regex)
EndsWithCI(s, suf) ==
  /\ Len(s) >= Len(suf)
  /\ \A i \in 1..Len(suf) :
       ToLowerChar(s[Len(s) - Len(suf) + i]) = ToLowerChar(suf[i])

\* /\.(png|jpg|jpeg)$/i.test(f)
IsImageName(f) ==
  \/ EndsWithCI(f, <<".","p","n","g">>)
  \/ EndsWithCI(f, <<".","j","p","g">>)
  \/ EndsWithCI(f, <<".","j","p","e","g">>)

\* --------------------------------------------------------------- JS values
\* undefined / null where the code can meet them
Undef == [t |-> "undefined"]
Str(s) == [t |-> "string", v |-> s]
\* a null engagement count
NullNum == -1
\* a field that is absent from an object (reads as undefined)
UndefStr == "<undefined>"
\* JS truthiness of a count that is a number or null
TruthyNum(n) == n # NullNum /\ n # 0
TruthyStr(s) == s # UndefStr /\ s # ""

\* the outcome of a call: it returns a value or it throws
Throw == [ok |-> FALSE]
Return(v) == [ok |-> TRUE, val |-> v]

\* ------------------------------------------------------ classifier (vision)
\* A response text is a sequence of characters; the token "{}" stands for the
\* JSON text of the record the response carries.
IsSpace(c) == c \in {" ", "\n", "\t", "\r"}

\* String.prototype.trim
RECURSIVE TrimStart(_)
TrimStart(s) == IF s # <<>> /\ IsSpace(Head(s)) THEN TrimStart(Tail(s)) ELSE s

RECURSIVE TrimEnd(_)
TrimEnd(s) ==
  IF s # <<>> /\ IsSpace(s[Len(s)]) THEN TrimEnd(SubSeq(s, 1, Len(s) - 1)) ELSE s

Trim(s) == TrimEnd(TrimStart(s))

StartsWith(s, p) == Len(s) >= Len(p) /\ SubSeq(s, 1, Len(p)) = p
EndsWith(s, p) == Len(s) >= Len(p) /\ SubSeq(s, Len(s) - Len(p) + 1, Len(s)) = p

\* the token "bt" stands for one backtick character
Fence == <<"bt", "bt", "bt">>

\* the length of the match of /```json?\n?/ at the start of s, 0 when there is
\* none: the fence, "jso", then an optional "n" and an optional line feed
OpenFenceMatch(s) ==
  IF ~StartsWith(s, Fence \o <<"j", "s", "o">>) THEN 0
  ELSE LET n == IF Len(s) >= 7 /\ s[7] = "n" THEN 1 ELSE 0
           l == IF Len(s) >= 7 + n /\ s[7 + n] = "\n" THEN 1 ELSE 0
       IN  6 + n + l

\* .replace(/```json?\n?/g, ''): every match is removed, left to right
RECURSIVE StripOpenFences(_)
StripOpenFences(s) ==
  IF s = <<>> THEN <<>>
  ELSE IF OpenFenceMatch(s) > 0
       THEN StripOpenFences(SubSeq(s, OpenFenceMatch(s) + 1, Len(s)))
       ELSE <<Head(s)>> \o StripOpenFences(Tail(s))

\* .replace(/```\n?$/g, ''): a fence at the very end, with or without a line
\* feed after it, is removed
StripCloseFence(s) ==
  IF EndsWith(s, Fence \o <<"\n">>) THEN SubSeq(s, 1, Len(s) - 4)
  ELSE IF EndsWith(s, Fence) THEN SubSeq(s, 1, Len(s) - 3)
  ELSE s

\* text.trim(), and the two replacements when the text starts with a fence
Unwrap(text) ==
  IF StartsWith(Trim(text), Fence)
  THEN StripCloseFence(StripOpenFences(Trim(text)))
  ELSE Trim(text)

\* JSON.parse accepts the JSON text with white space around it
ParsesAsRecord(s) == Trim(s) = <<"{}">>

\* analyzeScreenshot: one external call; the call rejects ("error"), or its
\* text does not parse as JSON ("garbage"), or it parses to a record ("json");
\* for a response given as text ("text") the parse is spelled out.
analyzeScreenshot(resp) ==
  IF resp.kind = "error" THEN Throw
  ELSE IF resp.kind = "garbage" THEN Throw
  ELSE IF resp.kind = "text"
       THEN (IF ParsesAsRecord(Unwrap(resp.text)) THEN Return(resp.record) ELSE Throw)
  ELSE Return(resp.record)

\* ------------------------------------------------------------- enrichment
\* generateSearchQuery: response.text().trim().replace(/['"]/g, '')
StripQuotes(s) == SelectSeq(s, LAMBDA c : c \notin {"'", "\""})

\* generateSearchQuery with a catch of its own that gives the empty query
generateSearchQuerySwallows(resp) ==
  IF resp.kind = "error" THEN Return(<<>>) ELSE Return(StripQuotes(Trim(resp.text)))

generateSearchQuery(resp) ==
  IF resp.kind = "error" THEN Throw ELSE Return(StripQuotes(Trim(resp.text)))

\* performWebSearch: never rejects; every failure shape resolves to []
performWebSearch(env) ==
  IF env.kind = "unconfigured" THEN <<>>
  ELSE IF env.kind = "neterror" THEN <<>>
  ELSE IF env.kind = "badjson" THEN <<>>
  ELSE IF env.kind = "noitems" THEN <<>>
  ELSE [i \in DOMAIN env.items |->
          [title |-> env.items[i].title, url |-> env.items[i].link,
           snippet |-> env.items[i].snippet]]

\* searchResults[r.index - 1], undefined when out of range; spreading undefined
\* yields no title, url or snippet
RawAt(searchResults, index) ==
  IF index \in DOMAIN searchResults THEN searchResults[index]
  ELSE [title |-> UndefStr, url |-> UndefStr, snippet |-> UndefStr]

Enrich(searchResults, r) ==
  [title |-> RawAt(searchResults, r.index).title,
   url |-> RawAt(searchResults, r.index).url,
   snippet |-> RawAt(searchResults, r.index).snippet,
   relevance |-> r.relevance, reason |-> r.reason, summary |-> r.summary]

\* Array.prototype.sort((a, b) => b.relevance - a.relevance): stable, descending
RECURSIVE InsertDesc(_, _)
InsertDesc(sorted, x) ==
  IF sorted = <<>> THEN <<x>>
  ELSE IF Head(sorted).relevance >= x.relevance
       THEN <<Head(sorted)>> \o InsertDesc(Tail(sorted), x)
       ELSE <<x>> \o sorted

RECURSIVE SortDesc(_)
SortDesc(s) ==
  IF s = <<>> THEN <<>>
  ELSE InsertDesc(SortDesc(SubSeq(s, 1, Len(s) - 1)), s[Len(s)])

\* the catch block of filterResearchResults: all results, unfiltered
UnfilteredPassthrough(searchResults) ==
  [i \in DOMAIN searchResults |->
     [title |-> searchResults[i].title, url |-> searchResults[i].url,
      snippet |-> searchResults[i].snippet,
      relevance |-> FallbackRelevance, reason |-> UndefStr,
      summary |-> searchResults[i].snippet]]

\* the try block without the sort
FilterParsedUnsorted(searchResults, results) ==
  LET kept == SelectSeq(results, LAMBDA r : r.relevance >= ResearchRelevanceThreshold)
  IN  [i \in DOMAIN kept |-> Enrich(searchResults, kept[i])]

\* the try block of filterResearchResults
FilterParsed(searchResults, results) ==
  LET kept == SelectSeq(results, LAMBDA r : r.relevance >= ResearchRelevanceThreshold)
  IN  SortDesc([i \in DOMAIN kept |-> Enrich(searchResults, kept[i])])

\* the try block as a whole: the call rejects ("error"), the text does not
\* parse ("garbage"), the JSON has no results array ("noresults": TypeError)
FilterTry(searchResults, resp) ==
  IF resp.kind = "json" THEN Return(FilterParsed(searchResults, resp.results))
  ELSE Throw

\* filterResearchResults with a catch block that gives up the raw results
filterResearchResultsDropsAll(searchResults, resp) ==
  IF Len(searchResults) = 0 THEN Return(<<>>)
  ELSE IF FilterTry(searchResults, resp).ok
       THEN FilterTry(searchResults, resp)
       ELSE Return(<<>>)

\* filterResearchResults: whatever the try block throws lands in the catch block
filterResearchResults(searchResults, resp) ==
  IF Len(searchResults) = 0 THEN Return(<<>>)
  ELSE IF FilterTry(searchResults, resp).ok
       THEN FilterTry(searchResults, resp)
       ELSE Return(UnfilteredPassthrough(searchResults))

NullBundle == [isNull |-> TRUE]
Bundle(q, rs) == [isNull |-> FALSE, query |-> q, results |-> rs]

\* performAutoResearch with a catch block that throws the error on
AutoResearchRethrows == Throw

\* the catch block of performAutoResearch: whatever was thrown inside the try
\* is logged and null is returned
AutoResearchCatch == Return(NullBundle)

\* ------------------------------------------------------------ the formatter
\* relevanceLabel of generateNote
\* a label whose tiers start above 0.8 and above 0.6
RelevanceLabelStrict(relevance) ==
  IF relevance > 80 THEN "High" ELSE IF relevance > 60 THEN "Medium" ELSE "Low"

RelevanceLabel(relevance) ==
  IF relevance >= 80 THEN "High" ELSE IF relevance >= 60 THEN "Medium" ELSE "Low"

\* one rendered entry of the Related Resources list
RenderResult(r) ==
  [title |-> r.title, url |-> r.url,
   summary |-> IF TruthyStr(r.summary) THEN r.summary ELSE r.snippet,
   label |-> RelevanceLabel(r.relevance), percent |-> r.relevance,
   why |-> IF TruthyStr(r.reason) THEN r.reason ELSE UndefStr]

\* researchSection built for every bundle, without the test of its length
ResearchSectionForAnyBundle(researchData) ==
  IF ~researchData.isNull
  THEN [present |-> TRUE, query |-> researchData.query,
        items |-> [i \in DOMAIN researchData.results |->
                     RenderResult(researchData.results[i])]]
  ELSE [present |-> FALSE]

\* researchSection of generateNote: '' unless the bundle has results
ResearchSection(researchData) ==
  IF ~researchData.isNull /\ Len(researchData.results) > 0
  THEN [present |-> TRUE, query |-> researchData.query,
        items |-> [i \in DOMAIN researchData.results |->
                     RenderResult(researchData.results[i])]]
  ELSE [present |-> FALSE]

\* generateNote: reading tweetData.engagement.likes throws a TypeError when the
\* record has no engagement object
generateNote(td, screenshotPath, researchData) ==
  IF td.engagement = Undef THEN Throw
  ELSE Return([title |-> td.title, category |-> td.category,
               confidence |-> td.confidence, tags |-> td.tags,
               screenshot |-> screenshotPath,
               engagementLine |-> TruthyNum(td.engagement.likes),
               imageEmbed |-> td.hasImages,
               research |-> ResearchSection(researchData)])

\* ---------------------------------------------------------------- the router
\* targetDir with the threshold itself sent to review (<= for <)
TargetDirInclusive(td) ==
  IF td.confidence <= ConfidenceThreshold THEN unsureDir
  ELSE IF td.category = "resource" THEN resourcesDir ELSE projectsDir

\* targetDir of saveNote
\* a router that puts the notes to review next to the screenshots
TargetDirBesideImages(td) ==
  IF td.confidence < ConfidenceThreshold THEN screenshotsDir
  ELSE IF td.category = "resource" THEN resourcesDir ELSE projectsDir

\* a router that sends every category it does not know to review
TargetDirStrictEnum(td) ==
  IF td.confidence < ConfidenceThreshold THEN unsureDir
  ELSE IF td.category = "resource" THEN resourcesDir
  ELSE IF td.category = "project-idea" THEN projectsDir ELSE unsureDir

TargetDir(td) ==
  IF td.confidence < ConfidenceThreshold THEN unsureDir
  ELSE IF td.category = "resource" THEN resourcesDir ELSE projectsDir

\* .replace(/[^a-z0-9]+/g, '-'): every run of other characters becomes one hyphen
RECURSIVE CollapseRuns(_)
CollapseRuns(s) ==
  IF s = <<>> THEN <<>>
  ELSE IF IsAlnum(Head(s)) THEN <<Head(s)>> \o CollapseRuns(Tail(s))
  ELSE IF Len(s) > 1 /\ ~IsAlnum(s[2]) THEN CollapseRuns(Tail(s))
  ELSE <<"-">> \o CollapseRuns(Tail(s))

\* a trim that removes the leading hyphen only
TrimLeadingHyphen(s) == IF s # <<>> /\ Head(s) = "-" THEN Tail(s) ELSE s

\* .replace(/^-|-$/g, ''): one leading and one trailing hyphen are removed
TrimHyphens(s) ==
  LET a == IF s # <<>> /\ Head(s) = "-" THEN Tail(s) ELSE s
  IN  IF a # <<>> /\ a[Len(a)] = "-" THEN SubSeq(a, 1, Len(a) - 1) ELSE a

\* .substring(0, 50)
Truncate(s) == IF Len(s) > MaxStem THEN SubSeq(s, 1, MaxStem) ELSE s

\* filename of saveNote
NoteFilename(title) ==
  Truncate(TrimHyphens(CollapseRuns(ToLowerCase(title)))) \o <<".","m","d">>

\* saveNote without the dry-run return before the write
saveNoteIgnoresDryRun(td, content, dry, ds, ns, fault) ==
  LET targetDir == TargetDir(td)
      mk == targetDir \notin ds
      ds1 == IF mk /\ fault # "mkdir" THEN ds \cup {targetDir} ELSE ds
  IN  IF mk /\ fault = "mkdir"
      THEN [ok |-> FALSE, dirs |-> ds, notes |-> ns]
      ELSE IF td.title = Undef
      THEN [ok |-> FALSE, dirs |-> ds1, notes |-> ns]
      ELSE IF fault = "write"
      THEN [ok |-> FALSE, dirs |-> ds1, notes |-> ns]
      ELSE LET filePath == <<targetDir, NoteFilename(td.title.v)>>
           IN  [ok |-> TRUE, dirs |-> ds1,
                notes |-> [q \in DOMAIN ns \cup {filePath} |->
                             IF q = filePath THEN content ELSE ns[q]],
                val |-> [saved |-> TRUE, hasPath |-> TRUE, path |-> filePath]]

\* saveNote(tweetData, noteContent, screenshot) on a document store where the
\* folders ds exist and the note files are ns.  fault names the file-system call
\* that fails: "mkdir", "write" or "none".  Gives the store afterwards and the
\* value returned, or the store afterwards and the exception.
\* saveNote that picks another name when the file is already there
saveNoteKeepsBoth(td, content, dry, ds, ns, fault) ==
  LET targetDir == TargetDir(td)
      mk == targetDir \notin ds
      ds1 == IF mk /\ fault # "mkdir" THEN ds \cup {targetDir} ELSE ds
  IN  IF mk /\ fault = "mkdir"
      THEN [ok |-> FALSE, dirs |-> ds, notes |-> ns]
      ELSE IF td.title = Undef
      THEN [ok |-> FALSE, dirs |-> ds1, notes |-> ns]
      ELSE IF dry
      THEN [ok |-> TRUE, dirs |-> ds1, notes |-> ns,
            val |-> [saved |-> FALSE, hasPath |-> FALSE]]
      ELSE IF fault = "write"
      THEN [ok |-> FALSE, dirs |-> ds1, notes |-> ns]
      ELSE LET first == <<targetDir, NoteFilename(td.title.v)>>
               filePath == IF first \in DOMAIN ns
                           THEN <<targetDir, NoteFilename(td.title.v) \o <<"2">> >>
                           ELSE first
           IN  [ok |-> TRUE, dirs |-> ds1,
                notes |-> [q \in DOMAIN ns \cup {filePath} |->
                             IF q = filePath THEN content ELSE ns[q]],
                val |-> [saved |-> TRUE, hasPath |-> TRUE, path |-> filePath]]

saveNote(td, content, dry, ds, ns, fault) ==
  LET targetDir == TargetDir(td)
      mk == targetDir \notin ds
      ds1 == IF mk /\ fault # "mkdir" THEN ds \cup {targetDir} ELSE ds
  IN  IF mk /\ fault = "mkdir"
      THEN [ok |-> FALSE, dirs |-> ds, notes |-> ns]
      ELSE IF td.title = Undef
      THEN [ok |-> FALSE, dirs |-> ds1, notes |-> ns]
      ELSE IF dry
      THEN [ok |-> TRUE, dirs |-> ds1, notes |-> ns,
            val |-> [saved |-> FALSE, hasPath |-> FALSE]]
      ELSE IF fault = "write"
      THEN [ok |-> FALSE, dirs |-> ds1, notes |-> ns]
      ELSE LET filePath == <<targetDir, NoteFilename(td.title.v)>>
           IN  [ok |-> TRUE, dirs |-> ds1,
                notes |-> [q \in DOMAIN ns \cup {filePath} |->
                             IF q = filePath THEN content ELSE ns[q]],
                val |-> [saved |-> TRUE, hasPath |-> TRUE, path |-> filePath]]

\* ------------------------------------------------------------- the run log
NoLog == [exists |-> FALSE]
\* the separator '---\n\n' the entries are inserted after
SepLen == 5
SepTok == [k |-> "sep"]
\* the document logResult starts from when there is none: the title and the
\* description (73 characters), then the separator
LogHeader == << [k |-> "text", len |-> 73], SepTok >>

\* length in characters of a piece of the document; an entry is longer than
\* any offset the code computes inside one
TokLen(tok) ==
  IF tok.k = "sep" THEN SepLen
  ELSE IF tok.k = "text" THEN tok.len
  ELSE IF tok.k = "part" THEN tok.to - tok.from
  ELSE 100

\* logContent.indexOf('---\n\n'): the offset of the first separator, or -1
RECURSIVE IndexOfSep(_)
IndexOfSep(doc) ==
  IF doc = <<>> THEN -1
  ELSE IF Head(doc).k = "sep" THEN 0
  ELSE IF IndexOfSep(Tail(doc)) = -1 THEN -1
  ELSE TokLen(Head(doc)) + IndexOfSep(Tail(doc))

\* an append that puts the entry at the end of the document
InsertAtEnd(doc, off, entry) == doc \o <<entry>>

\* logContent.slice(0, off) + entry + logContent.slice(off)
RECURSIVE InsertAt(_, _, _)
InsertAt(doc, off, entry) ==
  IF off <= 0 THEN <<entry>> \o doc
  ELSE IF doc = <<>> THEN <<entry>>
  ELSE IF TokLen(Head(doc)) <= off
       THEN <<Head(doc)>> \o InsertAt(Tail(doc), off - TokLen(Head(doc)), entry)
       ELSE << [k |-> "part", of |-> Head(doc), from |-> 0, to |-> off], entry,
               [k |-> "part", of |-> Head(doc), from |-> off,
                to |-> TokLen(Head(doc))] >> \o Tail(doc)

\* path.basename(notePath, '.md')
Basename(filePath) == SubSeq(filePath[2], 1, Len(filePath[2]) - 3)

LogEntry(td, file, notePath, now) ==
  [k |-> "entry", title |-> td.title, category |-> td.category,
   note |-> Basename(notePath), screenshot |-> file, at |-> now]

\* logResult(tweetData, screenshot, notePath): the log document afterwards, or
\* the exception of the file-system call that fails ("read" or "write")
logResult(td, file, notePath, now, dry, doc, fault) ==
  LET logContent == IF doc.exists THEN doc.body ELSE LogHeader
      headerEnd == IndexOfSep(logContent) + SepLen
      content1 == InsertAt(logContent, headerEnd, LogEntry(td, file, notePath, now))
  IN  IF doc.exists /\ fault = "read" THEN [ok |-> FALSE, log |-> doc]
      ELSE IF dry THEN [ok |-> TRUE, log |-> doc]
      ELSE IF fault = "write" THEN [ok |-> FALSE, log |-> doc]
      ELSE [ok |-> TRUE, log |-> [exists |-> TRUE, body |-> content1]]

\* ------------------------------------------------------ Processed-Set store
NoStore == [exists |-> FALSE]
EmptyMap == [f \in {} |-> 0]

\* a process start that does not read the document
LoadProcessedFresh(store) == EmptyMap

\* the load at process start: JSON.parse of the document when it exists
LoadProcessed(store) == IF store.exists THEN store.map ELSE EmptyMap

\* an assignment that starts from an empty object: only the new marker is kept
WithOnlyMarker(ps, filename, now) ==
  [f \in {filename} |-> [processedAt |-> now, provider |-> "gemini"]]

\* processedScreenshots[filename] = {processedAt, provider}
WithMarker(ps, filename, now) ==
  [f \in DOMAIN ps \cup {filename} |->
     IF f = filename THEN [processedAt |-> now, provider |-> "gemini"] ELSE ps[f]]

\* markAsProcessed that sets the marker in memory and never writes the document
markAsProcessedMemoryOnly(ps, filename, now, dry, store, fault) ==
  [ok |-> TRUE, mem |-> WithMarker(ps, filename, now), store |-> store]

\* markAsProcessed without the test of the dry-run flag before the write
markAsProcessedIgnoresDryRun(ps, filename, now, dry, store, fault) ==
  LET ps1 == WithMarker(ps, filename, now)
  IN  IF fault = "write" THEN [ok |-> FALSE, mem |-> ps1, store |-> store]
      ELSE [ok |-> TRUE, mem |-> ps1, store |-> [exists |-> TRUE, map |-> ps1]]

\* markAsProcessed that reads the document again and adds its markers to those
\* it finds there
markAsProcessedMerges(ps, filename, now, dry, store, fault) ==
  LET ps1 == WithMarker(ps, filename, now)
      found == IF store.exists THEN store.map ELSE [f \in {} |-> 0]
      merged == [f \in DOMAIN found \cup DOMAIN ps1 |->
                   IF f \in DOMAIN ps1 THEN ps1[f] ELSE found[f]]
  IN  IF dry THEN [ok |-> TRUE, mem |-> ps1, store |-> store]
      ELSE IF fault = "write" THEN [ok |-> FALSE, mem |-> ps1, store |-> store]
      ELSE [ok |-> TRUE, mem |-> ps1, store |-> [exists |-> TRUE, map |-> merged]]

\* markAsProcessed(filename): the in-memory set and the document afterwards;
\* the in-memory set is changed before the write that may throw
markAsProcessed(ps, filename, now, dry, store, fault) ==
  LET ps1 == WithMarker(ps, filename, now)
  IN  IF dry THEN [ok |-> TRUE, mem |-> ps1, store |-> store]
      ELSE IF fault = "write" THEN [ok |-> FALSE, mem |-> ps1, store |-> store]
      ELSE [ok |-> TRUE, mem |-> ps1, store |-> [exists |-> TRUE, map |-> ps1]]

\* ------------------------------------------------------------ the scanner
\* a scan that tests the extension only
findNewScreenshotsAll(files, ps) ==
  SelectSeq(files, LAMBDA f : IsImageName(f))

\* a scan that offers the images listed after the last marked entry
findNewScreenshotsSince(files, ps) ==
  LET marked == {i \in DOMAIN files : files[i] \in DOMAIN ps}
      last == IF marked = {} THEN 0
              ELSE CHOOSE i \in marked : \A j \in marked : j <= i
  IN  SelectSeq(SubSeq(files, last + 1, Len(files)), LAMBDA f : IsImageName(f))

\* a scan whose test of the extension lacks the i flag
findNewScreenshotsCaseSensitive(files, ps) ==
  SelectSeq(files, LAMBDA f :
    /\ \/ EndsWith(f, <<".","p","n","g">>)
       \/ EndsWith(f, <<".","j","p","g">>)
       \/ EndsWith(f, <<".","j","p","e","g">>)
    /\ f \notin DOMAIN ps)

\* findNewScreenshots once the folder exists: the image entries without marker
findNewScreenshots(files, ps) ==
  SelectSeq(files, LAMBDA f : IsImageName(f) /\ f \notin DOMAIN ps)

\* ---------------------------------------------------------------- the vault
\* Entries the user may drop into the watched folder, in the order they appear.
FilePool == << <<"a",".","p","n","g">>,
               <<"n",".","t","x","t">>,
               <<"B",".","J","P","G">> >>

VARIABLES
  \* the document store (survives between runs)
  dirExists,            \* the watched screenshots folder exists
  listing,              \* its entries, in listing order
  dirs,                 \* destination folders that exist
  notes,                \* note files: <<folder, filename>> -> content
  logDoc,               \* the processing log document (NoLog when absent)
  persisted,            \* the processed-marker document (NoStore when absent)
  \* one process
  pc, dryRun, enableAutoResearch,
  processedScreenshots, \* the in-memory Processed-Set
  screenshots, idx, processed, failed,
  tweetData, searchQuery, searchResults, researchData, noteContent, result,
  \* bookkeeping of the run, for the properties
  runs, outcome, classified, calls, noteWritten, logAppended,
  committed, committedPrior, retryDue,
  logAtStart,           \* the log document the first run found
  response,             \* the classifier answer a single-call check starts from
  other                 \* a second process on the same vault (off unless started)

\* the second process before it is started
OtherOff ==
  [pc |-> "off", mem |-> EmptyMap, shots |-> <<>>, idx |-> 1, seen |-> {},
   path |-> Undef]

vaultVars == <<dirExists, listing, dirs, notes, logDoc, persisted>>
procVars == <<pc, dryRun, enableAutoResearch, processedScreenshots, screenshots,
              idx, processed, failed, tweetData, searchQuery, searchResults,
              researchData, noteContent, result>>
histVars == <<runs, outcome, classified, calls, noteWritten, logAppended,
              committed, committedPrior, retryDue, logAtStart, response, other>>
vars == <<vaultVars, procVars, histVars>>

\* ------------------------------------------------- what the services answer
TitleA == <<"R","A","G",":"," ","C","l","a","u","d","e","!","!">>
TitleB == <<"r","a","g"," ","c","l","a","u","d","e">>

Engagement(l, rt, rp) == [t |-> "object", likes |-> l, retweets |-> rt, replies |-> rp]

Record(cat, conf, title, eng) ==
  [category |-> cat, confidence |-> conf, title |-> title, engagement |-> eng,
   tags |-> <<"ai", "rag">>, hasImages |-> TRUE]

\* what each captured image shows: a clear resource, and an unsure project idea
RecordOf(file) ==
  IF file = FilePool[1]
  THEN Record("resource", 92, Str(TitleA), Engagement(1200, 234, 89))
  ELSE Record("project-idea", 50, Str(TitleB), Engagement(NullNum, NullNum, NullNum))

\* what the classifier may answer for an image: the call fails, the text is not
\* JSON, the record of the image, or a malformed record (no engagement object,
\* no title)
ClassifierResponses(file) ==
  {[kind |-> "error"], [kind |-> "garbage"],
   [kind |-> "json", record |-> RecordOf(file)],
   [kind |-> "json", record |-> Record("resource", 92, Str(TitleB), Undef)],
   [kind |-> "json",
    record |-> Record("project-idea", 85, Undef, Engagement(5, 0, 0))]}

QueryResponses ==
  {[kind |-> "error"],
   [kind |-> "text", text |-> <<"\"","r","a","g","\"">>]}

SearchItems ==
  << [title |-> "t1", link |-> "u1", snippet |-> "s1"],
     [title |-> "t2", link |-> "u2", snippet |-> "s2"] >>

SearchEnvs ==
  {[kind |-> "unconfigured"], [kind |-> "neterror"], [kind |-> "badjson"],
   [kind |-> "noitems"], [kind |-> "items", items |-> SearchItems]}

Scored(i, rel) == [index |-> i, relevance |-> rel, reason |-> "why", summary |-> "sum"]

FilterResponses ==
  {[kind |-> "error"], [kind |-> "garbage"], [kind |-> "noresults"],
   [kind |-> "json", results |-> <<Scored(2, 40), Scored(1, 70), Scored(2, 90)>>]}

SaveFaults == {"none", "mkdir", "write"}
LogFaults == {"none", "read", "write"}
MarkFaults == {"none", "write"}

AllDirs == {unsureDir, resourcesDir, projectsDir}

\* -------------------------------------------------------------------- Init
\* the locals of one loop iteration before they are assigned
NoLocals ==
  /\ tweetData = Undef
  /\ searchQuery = <<>>
  /\ searchResults = <<>>
  /\ researchData = NullBundle
  /\ noteContent = Undef
  /\ result = Undef

Init ==
  /\ dirExists = FALSE
  /\ listing = <<>>
  /\ dirs = {}
  /\ notes = EmptyMap
  /\ logDoc = NoLog
  /\ persisted = NoStore
  /\ pc = "idle"
  /\ dryRun = FALSE
  /\ enableAutoResearch = TRUE
  /\ processedScreenshots = EmptyMap
  /\ screenshots = <<>>
  /\ idx = 1
  /\ processed = 0
  /\ failed = 0
  /\ NoLocals
  /\ runs = 0
  /\ outcome = <<>>
  /\ classified = {}
  /\ calls = <<>>
  /\ noteWritten = {}
  /\ logAppended = {}
  /\ committed = {}
  /\ committedPrior = {}
  /\ retryDue = {}
  /\ logAtStart = NoLog
  /\ response = Undef
  /\ other = OtherOff

\* the item the loop of main is at
Current == screenshots[idx]
\* new Date(): the runs are far enough apart to tell them by their time
Now == runs

\* items of this run whose formatting or saving threw
FailedFormatOrSave ==
  {screenshots[i] : i \in {j \in DOMAIN outcome :
                            outcome[j] \in {"failed:generate", "failed:save"}}}

locals == <<tweetData, searchQuery, searchResults, researchData, noteContent, result>>
config == <<dryRun, enableAutoResearch>>

\* ----------------------------------------------------------------- actions
\* The user captures a screenshot (or drops another file) into the folder.
AddScreenshot ==
  /\ pc = "idle"
  /\ Len(listing) < Len(FilePool)
  /\ listing' = Append(listing, FilePool[Len(listing) + 1])
  /\ dirExists' = TRUE
  /\ UNCHANGED <<dirs, notes, logDoc, persisted, procVars, histVars>>

\* a scan that reports a missing folder as empty and does not create it
StartRunWithoutMkdir(dry, enable) ==
  /\ pc = "idle"
  /\ runs < MaxRuns
  /\ dryRun' = dry
  /\ enableAutoResearch' = enable
  /\ processedScreenshots' = LoadProcessed(persisted)
  /\ dirExists' = dirExists
  /\ screenshots' = IF dirExists
                    THEN findNewScreenshots(listing, LoadProcessed(persisted))
                    ELSE <<>>
  /\ pc' = IF screenshots' = <<>> THEN "idle" ELSE "analyze"
  /\ idx' = 1
  /\ processed' = 0
  /\ failed' = 0
  /\ runs' = runs + 1
  /\ outcome' = [i \in DOMAIN screenshots' |-> "pending"]
  /\ classified' = {}
  /\ calls' = <<>>
  /\ noteWritten' = {}
  /\ logAppended' = {}
  /\ committedPrior' = committed
  /\ UNCHANGED <<listing, dirs, notes, logDoc, persisted, locals, committed, retryDue, logAtStart, response, other>>

\* A process starts: CONFIG is read, the Processed-Set is loaded, main scans;
\* the folder is created when it is missing, and main returns when nothing is new.
StartRun(dry, enable) ==
  /\ pc = "idle"
  /\ runs < MaxRuns
  /\ dryRun' = dry
  /\ enableAutoResearch' = enable
  /\ processedScreenshots' = LoadProcessed(persisted)
  /\ dirExists' = TRUE
  /\ screenshots' = IF dirExists
                    THEN findNewScreenshots(listing, LoadProcessed(persisted))
                    ELSE <<>>
  /\ pc' = IF screenshots' = <<>> THEN "idle" ELSE "analyze"
  /\ idx' = 1
  /\ processed' = 0
  /\ failed' = 0
  /\ runs' = runs + 1
  /\ outcome' = [i \in DOMAIN screenshots' |-> "pending"]
  /\ classified' = {}
  /\ calls' = <<>>
  /\ noteWritten' = {}
  /\ logAppended' = {}
  /\ committedPrior' = committed
  /\ UNCHANGED <<listing, dirs, notes, logDoc, persisted, locals, committed, retryDue, logAtStart, response, other>>

\* the end of one iteration of the for loop: its locals go out of scope
Advance ==
  /\ idx' = IF idx < Len(screenshots) THEN idx + 1 ELSE idx
  /\ pc' = IF idx < Len(screenshots) THEN "analyze" ELSE "summary"
  /\ tweetData' = Undef
  /\ searchQuery' = <<>>
  /\ searchResults' = <<>>
  /\ researchData' = NullBundle
  /\ noteContent' = Undef
  /\ result' = Undef
  /\ calls' = <<>>

\* a catch block that ends the batch at the first failure
CaughtAborts(stage) ==
  /\ failed' = failed + 1
  /\ processed' = processed
  /\ outcome' = [outcome EXCEPT ![idx] = stage]
  /\ idx' = idx
  /\ pc' = "summary"
  /\ tweetData' = Undef
  /\ searchQuery' = <<>>
  /\ searchResults' = <<>>
  /\ researchData' = NullBundle
  /\ noteContent' = Undef
  /\ result' = Undef
  /\ calls' = <<>>

\* a catch block that ends the process at the first failure
CaughtExits(stage) ==
  /\ failed' = failed + 1
  /\ processed' = processed
  /\ outcome' = [outcome EXCEPT ![idx] = stage]
  /\ idx' = idx
  /\ pc' = "idle"
  /\ tweetData' = Undef
  /\ searchQuery' = <<>>
  /\ searchResults' = <<>>
  /\ researchData' = NullBundle
  /\ noteContent' = Undef
  /\ result' = Undef
  /\ calls' = <<>>

\* a catch block that leaves the loop index where it is, so that the item is
\* tried again
CaughtRetries(stage) ==
  /\ failed' = failed + 1
  /\ processed' = processed
  /\ outcome' = outcome
  /\ idx' = idx
  /\ pc' = "analyze"
  /\ tweetData' = Undef
  /\ searchQuery' = <<>>
  /\ searchResults' = <<>>
  /\ researchData' = NullBundle
  /\ noteContent' = Undef
  /\ result' = Undef
  /\ calls' = <<>>

\* a catch block that reports the error and does not count it
CaughtUncounted(stage) ==
  /\ failed' = failed
  /\ processed' = processed
  /\ outcome' = outcome
  /\ Advance

\* the catch block of the loop
Caught(stage) ==
  /\ failed' = failed + 1
  /\ processed' = processed
  /\ outcome' = [outcome EXCEPT ![idx] = stage]
  /\ Advance

\* what the loop does with the value or the exception of performAutoResearch
AfterResearch(r) ==
  IF r.ok
  THEN /\ researchData' = r.val
       /\ pc' = "generate"
       /\ UNCHANGED <<idx, processed, failed, outcome, tweetData, noteContent, result>>
  ELSE Caught("failed:research")

\* a loop that already sends the next image to the classifier while the item
\* at hand is being worked on
AnalyzePrefetches(resp) ==
  /\ pc = "analyze"
  /\ classified' = classified \cup
       {screenshots[i] : i \in {j \in DOMAIN screenshots : j \in idx..(idx + 1)}}
  /\ LET r == analyzeScreenshot(resp)
     IN  IF r.ok
         THEN /\ tweetData' = r.val
              /\ pc' = "research"
              /\ calls' = Append(calls, <<"classify", resp.kind>>)
              /\ UNCHANGED <<idx, processed, failed, outcome, searchQuery,
                             searchResults, researchData, noteContent, result>>
         ELSE Caught("failed:analyze")
  /\ UNCHANGED <<vaultVars, config, processedScreenshots, screenshots,
                 runs, noteWritten, logAppended, committed, committedPrior, retryDue, logAtStart, response, other>>

\* analyzeScreenshot and the lines of main that print the record
Analyze(resp) ==
  /\ pc = "analyze"
  /\ classified' = classified \cup {Current}
  /\ LET r == analyzeScreenshot(resp)
     IN  IF r.ok
         THEN /\ tweetData' = r.val
              /\ pc' = "research"
              /\ calls' = Append(calls, <<"classify", resp.kind>>)
              /\ UNCHANGED <<idx, processed, failed, outcome, searchQuery,
                             searchResults, researchData, noteContent, result>>
         ELSE Caught("failed:analyze")
  /\ UNCHANGED <<vaultVars, config, processedScreenshots, screenshots,
                 runs, noteWritten, logAppended, committed, committedPrior, retryDue, logAtStart, response, other>>

\* performAutoResearch up to its first await: disabled, or generateSearchQuery
Query(qResp) ==
  /\ pc = "research"
  /\ IF ~enableAutoResearch
     THEN /\ AfterResearch(Return(NullBundle))
          /\ UNCHANGED <<searchQuery, searchResults, calls>>
     ELSE LET q == generateSearchQuery(qResp)
          IN  IF q.ok
              THEN /\ searchQuery' = q.val
                   /\ pc' = "search"
                   /\ calls' = Append(calls, <<"query", qResp.kind>>)
                   /\ UNCHANGED <<idx, processed, failed, outcome, tweetData,
                                  searchResults, researchData, noteContent, result>>
              ELSE /\ AfterResearch(AutoResearchCatch)
                   /\ IF AutoResearchCatch.ok
                      THEN /\ calls' = Append(calls, <<"query", qResp.kind>>)
                           /\ UNCHANGED <<searchQuery, searchResults>>
                      ELSE TRUE
  /\ UNCHANGED <<vaultVars, config, processedScreenshots, screenshots, runs,
                 classified, noteWritten, logAppended, committed, committedPrior,
                 retryDue, logAtStart, response, other>>

\* a search whose request and parse errors reject the promise, so that the
\* catch block of performAutoResearch answers them
SearchRejects(sEnv) ==
  /\ pc = "search"
  /\ calls' = Append(calls, <<"search", sEnv.kind>>)
  /\ LET rs == performWebSearch(sEnv)
     IN  /\ searchResults' = rs
         /\ IF sEnv.kind \in {"neterror", "badjson"}
            THEN /\ AfterResearch(AutoResearchCatch)
                 /\ UNCHANGED searchQuery
            ELSE IF Len(rs) = 0
            THEN /\ AfterResearch(Return(Bundle(searchQuery, <<>>)))
                 /\ UNCHANGED searchQuery
            ELSE /\ pc' = "filter"
                 /\ UNCHANGED <<idx, processed, failed, outcome, tweetData,
                                searchQuery, researchData, noteContent, result>>
  /\ UNCHANGED <<vaultVars, config, processedScreenshots, screenshots, runs,
                 classified, noteWritten, logAppended, committed, committedPrior,
                 retryDue, logAtStart, response, other>>

\* a search without the early return on an empty list
SearchAlwaysFilters(sEnv) ==
  /\ pc = "search"
  /\ calls' = Append(calls, <<"search", sEnv.kind>>)
  /\ searchResults' = performWebSearch(sEnv)
  /\ pc' = "filter"
  /\ UNCHANGED <<idx, processed, failed, outcome, tweetData,
                 searchQuery, researchData, noteContent, result>>
  /\ UNCHANGED <<vaultVars, config, processedScreenshots, screenshots, runs,
                 classified, noteWritten, logAppended, committed, committedPrior,
                 retryDue, logAtStart, response, other>>

\* performWebSearch and the early return on an empty list
Search(sEnv) ==
  /\ pc = "search"
  /\ calls' = Append(calls, <<"search", sEnv.kind>>)
  /\ LET rs == performWebSearch(sEnv)
     IN  /\ searchResults' = rs
         /\ IF Len(rs) = 0
            THEN /\ AfterResearch(Return(Bundle(searchQuery, <<>>)))
                 /\ UNCHANGED searchQuery
            ELSE /\ pc' = "filter"
                 /\ UNCHANGED <<idx, processed, failed, outcome, tweetData,
                                searchQuery, researchData, noteContent, result>>
  /\ UNCHANGED <<vaultVars, config, processedScreenshots, screenshots, runs,
                 classified, noteWritten, logAppended, committed, committedPrior,
                 retryDue, logAtStart, response, other>>

\* filterResearchResults and the return of the bundle
Filter(fResp) ==
  /\ pc = "filter"
  /\ LET r == filterResearchResults(searchResults, fResp)
         ret == IF r.ok THEN Return(Bundle(searchQuery, r.val)) ELSE AutoResearchCatch
     IN  /\ AfterResearch(ret)
         /\ IF ret.ok
            THEN /\ calls' = Append(calls, <<"filter", fResp.kind>>)
                 /\ UNCHANGED <<searchQuery, searchResults>>
            ELSE TRUE
  /\ UNCHANGED <<vaultVars, config, processedScreenshots, screenshots, runs,
                 classified, noteWritten, logAppended, committed, committedPrior,
                 retryDue, logAtStart, response, other>>

Generate ==
  /\ pc = "generate"
  /\ LET r == generateNote(tweetData, Current, researchData)
     IN  IF r.ok
         THEN /\ noteContent' = r.val
              /\ pc' = "save"
              /\ UNCHANGED <<idx, processed, failed, outcome, tweetData,
                             searchQuery, searchResults, researchData, result,
                             calls>>
         ELSE Caught("failed:generate")
  /\ UNCHANGED <<vaultVars, config, processedScreenshots, screenshots, runs,
                 classified, noteWritten, logAppended, committed, committedPrior,
                 retryDue, logAtStart, response, other>>

\* a loop that marks a saved item without logging it
AfterSaveSkipsLog(res, dry) ==
  IF res.saved \/ dry THEN "mark" ELSE "skip"

\* a loop that counts an item only when its note was saved
AfterSaveLiveOnly(res, dry) ==
  IF res.saved THEN (IF res.hasPath THEN "log" ELSE "mark") ELSE "skip"

\* the step of main after saveNote returned: the log, the marker, or neither
AfterSave(res, dry) ==
  IF res.saved \/ dry THEN (IF res.hasPath THEN "log" ELSE "mark") ELSE "skip"

Save(fault) ==
  /\ pc = "save"
  /\ LET r == saveNote(tweetData, noteContent, dryRun, dirs, notes, fault)
     IN  /\ dirs' = r.dirs
         /\ notes' = r.notes
         /\ IF r.ok
            THEN /\ noteWritten' = IF r.val.saved THEN noteWritten \cup {Current}
                                    ELSE noteWritten
                 /\ IF AfterSave(r.val, dryRun) = "skip"
                    THEN Advance
                    ELSE /\ result' = r.val
                         /\ pc' = AfterSave(r.val, dryRun)
                         /\ UNCHANGED <<idx, tweetData, searchQuery, searchResults,
                                        researchData, noteContent, calls>>
                 /\ UNCHANGED <<processed, failed, outcome>>
            ELSE /\ Caught("failed:save")
                 /\ UNCHANGED noteWritten
  /\ UNCHANGED <<dirExists, listing, logDoc, persisted, config,
                 processedScreenshots, screenshots, runs, classified, logAppended,
                 committed, committedPrior, retryDue, logAtStart, response, other>>

Log(fault) ==
  /\ pc = "log"
  /\ LET r == logResult(tweetData, Current, result.path, Now, dryRun, logDoc, fault)
     IN  /\ logDoc' = r.log
         /\ IF r.ok
            THEN /\ pc' = "mark"
                 /\ logAppended' = IF dryRun THEN logAppended
                                    ELSE logAppended \cup {Current}
                 /\ UNCHANGED <<idx, processed, failed, outcome, locals, calls>>
            ELSE /\ Caught("failed:log")
                 /\ UNCHANGED logAppended
  /\ UNCHANGED <<dirExists, listing, dirs, notes, persisted, config,
                 processedScreenshots, screenshots, runs, classified, noteWritten,
                 committed, committedPrior, retryDue, logAtStart, response, other>>

Mark(fault) ==
  /\ pc = "mark"
  /\ LET r == markAsProcessed(processedScreenshots, Current, Now, dryRun,
                              persisted, fault)
     IN  /\ processedScreenshots' = r.mem
         /\ persisted' = r.store
         /\ IF r.ok
            THEN /\ processed' = processed + 1
                 /\ failed' = failed
                 /\ outcome' = [outcome EXCEPT ![idx] = "processed"]
                 /\ committed' = IF dryRun THEN committed
                                  ELSE committed \cup {Current}
                 /\ Advance
            ELSE /\ Caught("failed:mark")
                 /\ UNCHANGED committed
  /\ UNCHANGED <<dirExists, listing, dirs, notes, logDoc, config, screenshots,
                 runs, classified, noteWritten, logAppended, committedPrior, retryDue, logAtStart, response, other>>

\* the summary is printed and the process ends; its memory is gone (the list
\* of the scan is kept, to say what the run was offered)
Summary ==
  /\ pc = "summary"
  /\ pc' = "idle"
  /\ retryDue' = FailedFormatOrSave
  /\ dryRun' = FALSE
  /\ enableAutoResearch' = TRUE
  /\ processedScreenshots' = EmptyMap
  /\ idx' = 1
  /\ processed' = 0
  /\ failed' = 0
  /\ outcome' = <<>>
  /\ classified' = {}
  /\ noteWritten' = {}
  /\ logAppended' = {}
  /\ UNCHANGED <<vaultVars, locals, screenshots, runs, calls, committed,
                 committedPrior, logAtStart, response, other>>

Next ==
  \/ AddScreenshot
  \/ \E dry \in BOOLEAN, enable \in BOOLEAN : StartRun(dry, enable)
  \/ \E resp \in (IF pc = "analyze" THEN ClassifierResponses(Current) ELSE {}) :
       Analyze(resp)
  \/ \E q \in QueryResponses : Query(q)
  \/ \E s \in SearchEnvs : Search(s)
  \/ \E f \in FilterResponses : Filter(f)
  \/ Generate
  \/ \E fault \in SaveFaults : Save(fault)
  \/ \E fault \in LogFaults : Log(fault)
  \/ \E fault \in MarkFaults : Mark(fault)
  \/ Summary

Spec == Init /\ [][Next]_vars


\* the steps of a process that has started: every awaited call returns or
\* fails, and the synchronous code between two awaits runs
RunStep ==
  \/ \E resp \in (IF pc = "analyze" THEN ClassifierResponses(Current) ELSE {}) :
       Analyze(resp)
  \/ \E q \in QueryResponses : Query(q)
  \/ \E s \in SearchEnvs : Search(s)
  \/ \E f \in FilterResponses : Filter(f)
  \/ Generate
  \/ \E fault \in SaveFaults : Save(fault)
  \/ \E fault \in LogFaults : Log(fault)
  \/ \E fault \in MarkFaults : Mark(fault)
  \/ Summary

\* runs over a watched directory that is missing, empty or holds the pool
LiveInit ==
  /\ dirExists \in BOOLEAN
  /\ listing \in (IF dirExists THEN {<<>>, FilePool} ELSE {<<>>})
  /\ dirs = {}
  /\ notes = EmptyMap
  /\ logDoc = NoLog
  /\ logAtStart = NoLog
  /\ response = Undef
  /\ other = OtherOff
  /\ persisted = NoStore
  /\ pc = "idle"
  /\ dryRun = FALSE
  /\ enableAutoResearch = TRUE
  /\ processedScreenshots = EmptyMap
  /\ screenshots = <<>>
  /\ idx = 1
  /\ processed = 0
  /\ failed = 0
  /\ NoLocals
  /\ runs = 0
  /\ outcome = <<>>
  /\ classified = {}
  /\ calls = <<>>
  /\ noteWritten = {}
  /\ logAppended = {}
  /\ committed = {}
  /\ committedPrior = {}
  /\ retryDue = {}

\* one process from its start to its end
LiveNext ==
  \/ (runs = 0 /\ \E dry \in BOOLEAN, enable \in BOOLEAN : StartRun(dry, enable))
  \/ RunStep

\* the runs under the assumption that a started process keeps running
FairSpec == LiveInit /\ [][LiveNext]_vars /\ WF_vars(RunStep)

\* --------------------------------------------- the router on every record
\* An item of a run without auto-research that has just been formatted, for
\* every confidence (in hundredths) and both categories, in a live and in a
\* dry run, in a vault with and without the destination folders.
ConfidenceGrid == 0..100

RouteRecords ==
  {Record(cat, conf, Str(TitleA), Engagement(1200, 234, 89)) :
     cat \in {"resource", "project-idea"}, conf \in ConfidenceGrid}

MidItem(file) ==
  /\ dirExists = TRUE
  /\ listing = <<file>>
  /\ notes = EmptyMap
  /\ logDoc = NoLog
  /\ persisted = NoStore
  /\ processedScreenshots = EmptyMap
  /\ screenshots = <<file>>
  /\ idx = 1
  /\ processed = 0
  /\ failed = 0
  /\ result = Undef
  /\ runs = 1
  /\ outcome = <<"pending">>
  /\ classified = {file}
  /\ noteWritten = {}
  /\ logAppended = {}
  /\ committed = {}
  /\ committedPrior = {}
  /\ retryDue = {}
  /\ logAtStart = NoLog
  /\ response = Undef
  /\ other = OtherOff

RouteInit ==
  /\ MidItem(FilePool[1])
  /\ dirs \in {{}, AllDirs}
  /\ pc = "save"
  /\ dryRun \in BOOLEAN
  /\ enableAutoResearch = FALSE
  /\ tweetData \in RouteRecords
  /\ searchQuery = <<>>
  /\ searchResults = <<>>
  /\ researchData = NullBundle
  /\ noteContent = generateNote(tweetData, FilePool[1], NullBundle).val
  /\ calls = << <<"classify", "json">> >>

RouteNext == \E fault \in SaveFaults : Save(fault)

RouteSpec == RouteInit /\ [][RouteNext]_vars

\* ------------------------------------------ the enricher on every answer
\* An item of a live run whose query has just been generated, for every short
\* list of search items and every short scoring the filtering call may give.
ItemPool ==
  { [title |-> "t1", link |-> "u1", snippet |-> "s1"],
    [title |-> "t2", link |-> "u2", snippet |-> "s2"],
    [title |-> "t3", link |-> "u3", snippet |-> "s3"] }

SeqsUpTo2(S) == {<<>>} \cup {<<a>> : a \in S} \cup {<<a, b>> : a \in S, b \in S}
SeqsOf3(S) == {<<a, b, c>> : a \in S, b \in S, c \in S}

WideSearchEnvs ==
  {[kind |-> "unconfigured"], [kind |-> "neterror"], [kind |-> "badjson"],
   [kind |-> "noitems"]}
    \cup {[kind |-> "items", items |-> l] :
            l \in (SeqsUpTo2(ItemPool) \cup SeqsOf3(ItemPool)) \ {<<>>}}

ScoredPool == {Scored(i, rel) : i \in 1..4, rel \in {40, 60, 90}}

WideFilterResponses ==
  {[kind |-> "error"], [kind |-> "garbage"], [kind |-> "noresults"]}
    \cup {[kind |-> "json", results |-> l] : l \in SeqsUpTo2(ScoredPool)}

EnrichInit ==
  /\ MidItem(FilePool[1])
  /\ dirs = {}
  /\ pc = "search"
  /\ dryRun = FALSE
  /\ enableAutoResearch = TRUE
  /\ tweetData = RecordOf(FilePool[1])
  /\ searchQuery = <<"r","a","g">>
  /\ searchResults = <<>>
  /\ researchData = NullBundle
  /\ noteContent = Undef
  /\ calls = << <<"classify", "json">>, <<"query", "text">> >>

EnrichNext ==
  \/ \E s \in WideSearchEnvs : Search(s)
  \/ \E f \in WideFilterResponses : Filter(f)

EnrichSpec == EnrichInit /\ [][EnrichNext]_vars

\* ------------------------------------------------- the router on every title
\* saveNote in a live run on short titles over letters, digits, blanks, hyphens
\* and other characters, on titles around the length limit, and on the title
\* of the README's example.
TitleChars == {"A", "b", "7", " ", "-", "!"}

ShortTitles ==
  SeqsUpTo2(TitleChars) \cup SeqsOf3(TitleChars)
    \cup {<<a, b, c, d>> : a \in {"A", " ", "-"}, b \in TitleChars,
                           c \in {"b", " ", "!"}, d \in TitleChars}

Pad(n) == [i \in 1..n |-> "a"]

LongTitles ==
  {p \o Pad(n) \o s : p \in {<<>>, <<" ">>}, n \in 46..51,
                      s \in SeqsUpTo2({"b", " ", "-"}) \cup SeqsOf3({"b", " ", "-"})}

ExampleTitle == <<"B","u","i","l","d","i","n","g"," ","R","A","G"," ","S","y","s","t","e","m","s",":"," ","C","l","a","u","d","e","!","!">>

Titles == ShortTitles \cup LongTitles \cup {ExampleTitle}

NameInit ==
  /\ MidItem(FilePool[1])
  /\ dirs = {}
  /\ pc = "save"
  /\ dryRun = FALSE
  /\ enableAutoResearch = FALSE
  /\ tweetData \in {Record("resource", 92, Str(t), Engagement(5, 0, 0)) : t \in Titles}
  /\ searchQuery = <<>>
  /\ searchResults = <<>>
  /\ researchData = NullBundle
  /\ noteContent = generateNote(tweetData, FilePool[1], NullBundle).val
  /\ calls = << <<"classify", "json">> >>

NameSpec == NameInit /\ [][RouteNext]_vars

\* ------------------------------------------------ the log on every document
\* Live runs without auto-research over a folder of two images, in a vault whose
\* log document is absent, was written by an earlier run, or was written or
\* edited by the user: empty, without the separator, starting with it, or with
\* a second separator further down.
OldEntry ==
  [k |-> "entry", title |-> Str(TitleB), category |-> "resource",
   note |-> <<"o","l","d">>, screenshot |-> <<"o",".","p","n","g">>, at |-> 0]

PreexistingLogs ==
  {NoLog,
   [exists |-> TRUE, body |-> LogHeader],
   [exists |-> TRUE, body |-> LogHeader \o <<OldEntry>>],
   [exists |-> TRUE, body |-> <<>>],
   [exists |-> TRUE, body |-> << [k |-> "text", len |-> 30] >>],
   [exists |-> TRUE, body |-> << SepTok, [k |-> "text", len |-> 30] >>],
   [exists |-> TRUE,
    body |-> << [k |-> "text", len |-> 20], SepTok, [k |-> "text", len |-> 15],
                SepTok, OldEntry >>]}

LogInit ==
  /\ dirExists = TRUE
  /\ listing = FilePool
  /\ dirs = {}
  /\ notes = EmptyMap
  /\ logDoc \in PreexistingLogs
  /\ logAtStart = logDoc
  /\ response = Undef
  /\ other = OtherOff
  /\ persisted = NoStore
  /\ pc = "idle"
  /\ dryRun = FALSE
  /\ enableAutoResearch = TRUE
  /\ processedScreenshots = EmptyMap
  /\ screenshots = <<>>
  /\ idx = 1
  /\ processed = 0
  /\ failed = 0
  /\ NoLocals
  /\ runs = 0
  /\ outcome = <<>>
  /\ classified = {}
  /\ calls = <<>>
  /\ noteWritten = {}
  /\ logAppended = {}
  /\ committed = {}
  /\ committedPrior = {}
  /\ retryDue = {}

LogNext ==
  \/ StartRun(FALSE, FALSE)
  \/ (pc = "analyze" /\ Analyze([kind |-> "json", record |-> RecordOf(Current)]))
  \/ Query([kind |-> "error"])
  \/ Generate
  \/ Save("none")
  \/ \E fault \in LogFaults : Log(fault)
  \/ \E fault \in MarkFaults : Mark(fault)
  \/ Summary

LogSpec == LogInit /\ [][LogNext]_vars

\* ------------------------------------------- the classifier on every text
\* One call of analyzeScreenshot in a live run, on every way the service may
\* lay out the JSON text of a record: bare, with white space around it, in a
\* fenced block with or without the tag json, with or without line feeds, with
\* prose before the fence, and text that is no JSON at all.
JsonTag == <<"j", "s", "o", "n">>

\* a record in a block with a leading and a trailing fence, each on its own line
FencedTexts ==
  {Fence \o tag \o <<"\n", "{}", "\n">> \o Fence \o tail :
     tag \in {<<>>, JsonTag}, tail \in {<<>>, <<"\n">>}}

ResponseTexts ==
  FencedTexts
    \cup {<<"{}">>, <<" ", "{}", "\n">>, <<"x">>,
          Fence \o JsonTag \o <<"{}">> \o Fence,
          Fence \o <<"{}">> \o Fence,
          <<" ", "\n">> \o Fence \o JsonTag \o <<"\n", "{}", "\n">> \o Fence,
          <<"x", "\n">> \o Fence \o JsonTag \o <<"\n", "{}", "\n">> \o Fence}

TextResponses ==
  {[kind |-> "text", text |-> t, record |-> r] : t \in ResponseTexts, r \in RouteRecords}

FenceInit ==
  /\ dirExists = TRUE
  /\ listing = <<FilePool[1]>>
  /\ dirs = {}
  /\ notes = EmptyMap
  /\ logDoc = NoLog
  /\ logAtStart = NoLog
  /\ response \in TextResponses
  /\ other = OtherOff
  /\ persisted = NoStore
  /\ pc = "analyze"
  /\ dryRun = FALSE
  /\ enableAutoResearch = TRUE
  /\ processedScreenshots = EmptyMap
  /\ screenshots = <<FilePool[1]>>
  /\ idx = 1
  /\ processed = 0
  /\ failed = 0
  /\ NoLocals
  /\ runs = 1
  /\ outcome = <<"pending">>
  /\ classified = {}
  /\ calls = <<>>
  /\ noteWritten = {}
  /\ logAppended = {}
  /\ committed = {}
  /\ committedPrior = {}
  /\ retryDue = {}

FenceNext == Analyze(response)

FenceSpec == FenceInit /\ [][FenceNext]_vars

\* ------------------------------------------------- the scanner on any folder
\* entries a folder may list, in the order readdirSync gives them
ScanPool == << <<"d",".","P","n","g">>,
               <<"a",".","p","n","g">>,
               <<"n",".","t","x","t">>,
               <<"p","n","g">>,
               <<"c",".","j","p","e","g">>,
               <<"e",".","p","n","g",".","x">>,
               <<"B",".","J","P","G">> >>

\* an existing folder listing any part of the pool, and a document with
\* markers for any of the entries (or no document)
ScanInit ==
  /\ dirExists = TRUE
  /\ \E keep \in SUBSET DOMAIN ScanPool :
       listing = SelectSeq(ScanPool, LAMBDA f :
                   \E i \in keep : ScanPool[i] = f)
  /\ dirs = {}
  /\ notes = EmptyMap
  /\ logDoc = NoLog
  /\ logAtStart = NoLog
  /\ response = Undef
  /\ other = OtherOff
  /\ persisted \in {NoStore} \cup
       {[exists |-> TRUE,
         map |-> [f \in S |-> [processedAt |-> 0, provider |-> "gemini"]]] :
          S \in SUBSET {ScanPool[1], ScanPool[3], ScanPool[5], ScanPool[7]}}
  /\ pc = "idle"
  /\ dryRun = FALSE
  /\ enableAutoResearch = TRUE
  /\ processedScreenshots = EmptyMap
  /\ screenshots = <<>>
  /\ idx = 1
  /\ processed = 0
  /\ failed = 0
  /\ NoLocals
  /\ runs = 0
  /\ outcome = <<>>
  /\ classified = {}
  /\ calls = <<>>
  /\ noteWritten = {}
  /\ logAppended = {}
  /\ committed = {}
  /\ committedPrior = {}
  /\ retryDue = {}

ScanNext == \E dry \in BOOLEAN, enable \in BOOLEAN : StartRun(dry, enable)

ScanSpec == ScanInit /\ [][ScanNext]_vars

\* ------------------------------------- two screenshots of the same tweet
\* runs in which the classifier reads the same record off every image, so that
\* every item derives the same folder and file name
CollideNext ==
  \/ \E dry \in BOOLEAN : StartRun(dry, FALSE)
  \/ (pc = "analyze" /\ Analyze([kind |-> "json", record |-> RecordOf(FilePool[1])]))
  \/ Query([kind |-> "error"])
  \/ Generate
  \/ \E fault \in SaveFaults : Save(fault)
  \/ \E fault \in LogFaults : Log(fault)
  \/ \E fault \in MarkFaults : Mark(fault)
  \/ Summary

CollideSpec == LiveInit /\ [][CollideNext]_vars

\* ------------------------------------ the formatter on every engagement
\* an item that was classified and waits for its note; each engagement count
\* is null, zero or positive
NoteInit ==
  /\ MidItem(FilePool[1])
  /\ dirs = {}
  /\ pc = "generate"
  /\ dryRun \in BOOLEAN
  /\ enableAutoResearch = FALSE
  /\ \E cat \in {"resource", "project-idea"} :
       \E l \in {NullNum, 0, 7}, rt \in {NullNum, 0, 7}, rp \in {NullNum, 0, 7} :
         tweetData = Record(cat, 92, Str(TitleA), Engagement(l, rt, rp))
  /\ searchQuery = <<>>
  /\ searchResults = <<>>
  /\ researchData = NullBundle
  /\ noteContent = Undef
  /\ calls = << <<"classify", "json">> >>

NoteNext == Generate

NoteSpec == NoteInit /\ [][NoteNext]_vars

\* ------------------------------------- the formatter on every relevance
\* an item whose enrichment returned a bundle of one or two results, ordered
\* by relevance, each relevance any number of hundredths
LabelInit ==
  /\ MidItem(FilePool[1])
  /\ dirs = {}
  /\ pc = "generate"
  /\ dryRun = FALSE
  /\ enableAutoResearch = TRUE
  /\ tweetData = RecordOf(FilePool[1])
  /\ searchQuery = <<"r","a","g">>
  /\ searchResults = <<>>
  /\ \E a \in 0..100, b \in 0..100, n \in 1..2 :
       /\ a >= b
       /\ researchData =
            Bundle(searchQuery,
                   SubSeq(<< [title |-> "t1", url |-> "u1", snippet |-> "s1",
                              relevance |-> a, reason |-> UndefStr, summary |-> "s1"],
                             [title |-> "t2", url |-> "u2", snippet |-> "s2",
                              relevance |-> b, reason |-> "why", summary |-> "sum"] >>,
                          1, n))
  /\ noteContent = Undef
  /\ calls = << <<"classify", "json">>, <<"query", "text">>,
                <<"search", "items">>, <<"filter", "json">> >>

LabelSpec == LabelInit /\ [][NoteNext]_vars

\* ------------------------------------------ the router on any category
\* an item whose record has a category of the enum, one outside it (another
\* word, another case) or none, formatted and waiting for saveNote
CategoryInit ==
  /\ MidItem(FilePool[1])
  /\ dirs \in {{}, AllDirs}
  /\ pc = "save"
  /\ dryRun \in BOOLEAN
  /\ enableAutoResearch = FALSE
  /\ \E cat \in {"resource", "project-idea", "Resource", "meme", "", UndefStr},
        conf \in {0, 69, 70, 71, 100} :
       tweetData = Record(cat, conf, Str(TitleA), Engagement(1200, 234, 89))
  /\ searchQuery = <<>>
  /\ searchResults = <<>>
  /\ researchData = NullBundle
  /\ noteContent = generateNote(tweetData, FilePool[1], NullBundle).val
  /\ calls = << <<"classify", "json">> >>

CategorySpec == CategoryInit /\ [][RouteNext]_vars

\* ------------------------------------------- a dry run, then live runs
\* the first process is started with --dry-run, every later one without it;
\* the folder is not touched by the user in between
DryNext ==
  \/ StartRun(runs = 0, FALSE)
  \/ \E resp \in (IF pc = "analyze" THEN ClassifierResponses(Current) ELSE {}) :
       Analyze(resp)
  \/ Query([kind |-> "error"])
  \/ Generate
  \/ \E fault \in SaveFaults : Save(fault)
  \/ \E fault \in LogFaults : Log(fault)
  \/ \E fault \in MarkFaults : Mark(fault)
  \/ Summary

DrySpec == LiveInit /\ [][DryNext]_vars

\* --------------------------------------------- two processes on one vault
\* A second process (a cron run next to a manual one) runs the same script,
\* live and without auto-research, on the same vault and marker document; its
\* file-system calls interleave with those of the first process.
otherFrame == <<procVars, runs, outcome, classified, calls, noteWritten,
                logAppended, committed, committedPrior, retryDue, logAtStart,
                response>>

OtherItem == other.shots[other.idx]

\* process start: the marker document is loaded, main scans the folder
OtherStart ==
  /\ other.pc = "off"
  /\ LET ps == LoadProcessed(persisted)
         sh == IF dirExists THEN findNewScreenshots(listing, ps) ELSE <<>>
     IN  other' = [pc |-> IF sh = <<>> THEN "done" ELSE "analyze", mem |-> ps,
                   shots |-> sh, idx |-> 1, seen |-> {}, path |-> Undef]
  /\ dirExists' = TRUE
  /\ UNCHANGED <<listing, dirs, notes, logDoc, persisted, otherFrame>>

\* analyzeScreenshot returns the record of the image
OtherAnalyze ==
  /\ other.pc = "analyze"
  /\ other' = [other EXCEPT !.pc = "save", !.seen = @ \cup {OtherItem}]
  /\ UNCHANGED <<vaultVars, otherFrame>>

\* generateNote and saveNote
OtherSave ==
  /\ other.pc = "save"
  /\ LET td == RecordOf(OtherItem)
         r == saveNote(td, generateNote(td, OtherItem, NullBundle).val, FALSE,
                       dirs, notes, "none")
     IN  /\ dirs' = r.dirs
         /\ notes' = r.notes
         /\ other' = [other EXCEPT !.pc = "log", !.path = r.val.path]
  /\ UNCHANGED <<dirExists, listing, logDoc, persisted, otherFrame>>

\* logResult
OtherLog ==
  /\ other.pc = "log"
  /\ logDoc' = logResult(RecordOf(OtherItem), OtherItem, other.path, Now, FALSE,
                         logDoc, "none").log
  /\ other' = [other EXCEPT !.pc = "mark"]
  /\ UNCHANGED <<dirExists, listing, dirs, notes, persisted, otherFrame>>

\* markAsProcessed, and the loop moves on or ends
OtherMark ==
  /\ other.pc = "mark"
  /\ LET r == markAsProcessed(other.mem, OtherItem, Now, FALSE, persisted, "none")
     IN  /\ persisted' = r.store
         /\ other' = [other EXCEPT
                        !.mem = r.mem,
                        !.path = Undef,
                        !.idx = IF other.idx < Len(other.shots) THEN @ + 1 ELSE @,
                        !.pc = IF other.idx < Len(other.shots) THEN "analyze" ELSE "done"]
  /\ UNCHANGED <<dirExists, listing, dirs, notes, logDoc, otherFrame>>

OverlapNext ==
  \/ StartRun(FALSE, FALSE)
  \/ (pc = "analyze" /\ Analyze([kind |-> "json", record |-> RecordOf(Current)]))
  \/ Query([kind |-> "error"])
  \/ Generate
  \/ Save("none")
  \/ Log("none")
  \/ Mark("none")
  \/ Summary
  \/ OtherStart
  \/ OtherAnalyze
  \/ OtherSave
  \/ OtherLog
  \/ OtherMark

OverlapSpec == LiveInit /\ [][OverlapNext]_vars

\* ============================================================== properties
Marked(store) == DOMAIN LoadProcessed(store)
IsFailed(o) == o \notin {"pending", "processed"}

\* C1: an item whose marker a live run persisted (it reached Logged&Marked) is
\* never processed again: no later run is offered it by the scan, and no later
\* run calls the classifier for it.
C1_NoReprocessing ==
  \A f \in committedPrior : f \notin Range(screenshots) /\ f \notin classified

\* a later run that classified another item while a committed one is still in
\* the watched folder
C1_Witness ==
  /\ pc = "summary"
  /\ classified # {}
  /\ \E f \in committedPrior : f \in Range(listing)

\* C2: whenever the Processed-Set holds a marker for X, the scan does not
\* return X.  Before the first item of a run is handled the in-memory set is the
\* set the scan was computed from.
C2_ScanExcludesMarked ==
  (pc = "analyze" /\ idx = 1) =>
    \A f \in DOMAIN processedScreenshots : f \notin Range(screenshots)

\* a scan over a folder that still holds a marked image
C2_Witness ==
  /\ pc = "analyze"
  /\ idx = 1
  /\ \E f \in DOMAIN processedScreenshots : f \in Range(listing)

\* C5: in a live run a marker added during the run implies that the note of the
\* item was written and its log entry appended before.
C5_MarkerAfterNoteAndLog ==
  (pc # "idle" /\ ~dryRun) =>
    \A f \in Range(screenshots) :
      (f \in DOMAIN processedScreenshots \/ f \in Marked(persisted))
        => (f \in noteWritten /\ f \in logAppended)

\* a live run that has just marked an item
C5_Witness ==
  /\ ~dryRun
  /\ pc \in {"analyze", "summary"}
  /\ \E f \in Range(screenshots) : f \in Marked(persisted)

\* C7: in a dry run no note file is written, and neither the log document nor
\* the persisted Processed-Set document is created or changed.
C7_DryRunWritesNoDocument ==
  [][(dryRun \/ dryRun') =>
       (notes' = notes /\ logDoc' = logDoc /\ persisted' = persisted)]_vars

\* a dry run that counted an item as processed
C7_Witness == dryRun /\ pc = "summary" /\ processed > 0

\* C8: a dry run changes nothing in the document store: no file and no folder
\* is created or changed.
C8_DryRunWritesNothing ==
  [][(dryRun \/ dryRun') => vaultVars' = vaultVars]_vars

\* C9: performAutoResearch never throws: no item fails at the enrichment stage,
\* whatever the query generation, the search and the filtering do.
C9_EnrichmentNeverFails ==
  \A i \in DOMAIN outcome : outcome[i] # "failed:research"

\* an item whose query generation threw and that went on to be formatted
C9_Witness ==
  /\ pc = "generate"
  /\ \E i \in DOMAIN calls : calls[i] = <<"query", "error">>

\* what a live run leaves behind for an image it handled alone and in full:
\* the note of the image's record in the folder the record is routed to, a log
\* entry for the image, and its marker in the persisted Processed-Set
HandledInFull(f) ==
  LET td == RecordOf(f)
      filePath == <<TargetDir(td), NoteFilename(td.title.v)>>
  IN  /\ filePath \in DOMAIN notes
      /\ notes[filePath].screenshot = f
      /\ notes[filePath].title = td.title
      /\ logDoc.exists
      /\ \E k \in DOMAIN logDoc.body :
           /\ logDoc.body[k].k = "entry"
           /\ logDoc.body[k].screenshot = f
           /\ logDoc.body[k].at = Now
      /\ f \in Marked(persisted)
      /\ persisted.map[f].processedAt = Now

\* C4: a throw while an item is handled adds one to the failure counter and
\* does not end the batch: the loop goes on to the next item, every item has
\* been handled when the summary is reached, and an item handled after a failed
\* one is processed as it would be alone.
C4_FailureIsolation ==
  pc # "idle" =>
    /\ failed = Cardinality({i \in DOMAIN outcome : IsFailed(outcome[i])})
    /\ processed = Cardinality({i \in DOMAIN outcome : outcome[i] = "processed"})
    /\ \A i \in DOMAIN outcome :
         /\ i < idx => outcome[i] # "pending"
         /\ pc = "summary" => outcome[i] # "pending"
         /\ (outcome[i] = "processed" /\ ~dryRun) => HandledInFull(screenshots[i])

\* a live batch whose first item failed and whose second item was processed
C4_Witness ==
  /\ pc = "summary"
  /\ ~dryRun
  /\ Len(screenshots) = 2
  /\ IsFailed(outcome[1])
  /\ outcome[2] = "processed"

\* C6: when formatting or saving throws after a successful classification, no
\* marker is written for the item, in memory or on disk; the scan of the next
\* run offers the item again and that run calls the classifier for it again.
C6_NoMarkerThenRetried ==
  /\ \A f \in FailedFormatOrSave :
       f \notin DOMAIN processedScreenshots /\ f \notin Marked(persisted)
  /\ retryDue \subseteq Range(screenshots)
  /\ pc = "summary" => retryDue \subseteq classified

\* the end of a run that was offered an item the run before failed to format
\* or save
C6_Witness ==
  /\ pc = "summary"
  /\ runs = 2
  /\ retryDue # {}

\* the folder the routing table of the README gives
TableDir(td) ==
  IF td.confidence < ConfidenceThreshold THEN unsureDir
  ELSE IF td.category = "resource" THEN resourcesDir
  ELSE projectsDir

\* C3: for every confidence in [0,1] and both categories saveNote picks exactly
\* one folder: the review folder below the threshold whatever the category;
\* from the threshold on (the threshold included) the resources folder for a
\* resource and the projects folder for a project idea.
C3_RoutingTable ==
  /\ pc \in {"log", "mark"} =>
       /\ TableDir(tweetData) \in dirs
       /\ dirs # AllDirs => dirs = {TableDir(tweetData)}
  /\ pc = "log" =>
       /\ result.path[1] = TableDir(tweetData)
       /\ DOMAIN notes = {result.path}

\* a project idea exactly at the threshold, saved
C3_Witness ==
  /\ pc = "log"
  /\ tweetData.confidence = 70
  /\ tweetData.category = "project-idea"
  /\ result.path[1] = projectsDir

LastCall == calls[Len(calls)]

\* C10: when the filtering call throws or answers unparsable text for a
\* non-empty raw list, performAutoResearch returns a bundle with all raw results
\* in their order, each with relevance 0.5 and its raw snippet as summary.
C10_GracefulDegradation ==
  (pc = "generate" /\ LastCall \in {<<"filter", "error">>, <<"filter", "garbage">>}) =>
    /\ ~researchData.isNull
    /\ researchData.query = searchQuery
    /\ Len(researchData.results) = Len(searchResults)
    /\ \A i \in DOMAIN searchResults :
         /\ researchData.results[i].title = searchResults[i].title
         /\ researchData.results[i].url = searchResults[i].url
         /\ researchData.results[i].snippet = searchResults[i].snippet
         /\ researchData.results[i].relevance = 50
         /\ researchData.results[i].summary = searchResults[i].snippet

\* unparsable filtering text for a raw list of three results
C10_Witness ==
  /\ pc = "generate"
  /\ LastCall = <<"filter", "garbage">>
  /\ Len(searchResults) = 3
  /\ Len(researchData.results) = 3

\* the results are in order of non-increasing relevance
NonIncreasing(rs) ==
  \A i \in DOMAIN rs : \A j \in DOMAIN rs : i < j => rs[i].relevance >= rs[j].relevance

\* C11 as stated: in every bundle performAutoResearch returns, every result has
\* relevance >= the relevance threshold (0.6) and the results are in order of
\* non-increasing relevance.
C11_AllAboveThreshold ==
  (pc = "generate" /\ ~researchData.isNull) =>
    /\ \A i \in DOMAIN researchData.results : researchData.results[i].relevance >= 60
    /\ NonIncreasing(researchData.results)

\* C11 amended: the results of every bundle are in order of non-increasing
\* relevance; when the filtering answer was parsed every result has relevance
\* >= the threshold, and when the filtering failed every result has the
\* passthrough relevance 0.5, which is below the threshold.
C11_AboveThresholdWhenFiltered ==
  (pc = "generate" /\ ~researchData.isNull) =>
    /\ NonIncreasing(researchData.results)
    /\ LastCall = <<"filter", "json">> =>
         \A i \in DOMAIN researchData.results : researchData.results[i].relevance >= 60
    /\ (LastCall[1] = "filter" /\ LastCall[2] # "json") =>
         /\ researchData.results # <<>>
         /\ \A i \in DOMAIN researchData.results : researchData.results[i].relevance = 50

\* a parsed answer that scored the kept results in ascending order, so that the
\* sort had to exchange them
C11_Witness ==
  /\ pc = "generate"
  /\ LastCall = <<"filter", "json">>
  /\ Len(researchData.results) = 2
  /\ researchData.results[1].relevance = 90
  /\ researchData.results[2].relevance = 60
  /\ researchData.results[1].title = "t2"
  /\ researchData.results[2].title = "t1"

\* C12: the document generateNote produces has an Auto-Research section if and
\* only if the research bundle is not null and its list of results is not empty.
C12_ResearchSectionPresence ==
  pc \in {"save", "log", "mark"} =>
    (noteContent.research.present
       <=> (~researchData.isNull /\ researchData.results # <<>>))

\* a document formatted for a bundle with a query and no results
C12_Witness ==
  /\ pc = "save"
  /\ ~researchData.isNull
  /\ researchData.results = <<>>
  /\ ~noteContent.research.present

\* the index of the first separator of a document, 0 when it has none
FirstSep(doc) ==
  IF \E i \in DOMAIN doc : doc[i].k = "sep"
  THEN CHOOSE i \in DOMAIN doc : doc[i].k = "sep" /\ \A j \in 1..(i - 1) : doc[j].k # "sep"
  ELSE 0

\* the position of an image in the folder
FileIndex(f) == CHOOSE i \in DOMAIN FilePool : FilePool[i] = f

\* when an entry was appended: the run, then the position of its image in the
\* batch; entries that were there before the first run come first
AppendedAt(e) == IF e.at = 0 THEN 0 ELSE 10 * e.at + FileIndex(e.screenshot)

\* C13: in a log document with a header separator the entries after the
\* separator are in reverse order of appending: the entry appended last comes
\* right after the separator and no entry comes after an older one.
C13_NewestFirst ==
  (logDoc.exists /\ FirstSep(logDoc.body) > 0) =>
    LET doc == logDoc.body
        entries == {i \in DOMAIN doc : doc[i].k = "entry"}
        appended == {i \in entries : doc[i].at > 0}
    IN  /\ \A i \in entries : \A j \in entries :
             i < j => AppendedAt(doc[i]) > AppendedAt(doc[j])
        /\ \A i \in appended : i > FirstSep(doc)
        /\ appended # {} => FirstSep(doc) + 1 \in appended
        /\ Cardinality(appended) = Len(doc) - Len((IF logAtStart.exists THEN logAtStart.body ELSE LogHeader))

\* four entries appended by two runs to a log that had an older entry
C13_Witness ==
  /\ logDoc.exists
  /\ logAtStart = [exists |-> TRUE, body |-> LogHeader \o <<OldEntry>>]
  /\ Len(logDoc.body) = Len(LogHeader) + 5

\* the log document the first append starts from
OriginalLog == IF logAtStart.exists THEN logAtStart.body ELSE LogHeader

\* the header block of a document: everything up to its first separator, the
\* separator included; a document without a separator is all header
HeaderOf(doc) == IF FirstSep(doc) = 0 THEN doc ELSE SubSeq(doc, 1, FirstSep(doc))

\* C14: whatever log document there was before (or none: then the fixed header
\* and separator), after any number of appends the document begins with the
\* original header block, the original content is intact and there once, and
\* all entries come after the header block.
C14_HeaderPreserved ==
  logDoc.exists =>
    LET doc == logDoc.body
        h == Len(HeaderOf(OriginalLog))
    IN  /\ Len(doc) >= h
        /\ SubSeq(doc, 1, h) = HeaderOf(OriginalLog)
        /\ SelectSeq(doc, LAMBDA t : ~(t.k = "entry" /\ t.at > 0)) = OriginalLog

\* the stem of the filename saveNote gave the note: the name without ".md"
Stem == SubSeq(result.path[2], 1, Len(result.path[2]) - 3)

\* the filename is a stem of lower-case letters, digits and single hyphens, of
\* at most 50 characters and without a leading hyphen, followed by ".md"
WellFormedName ==
  LET name == result.path[2]
  IN  /\ Len(name) >= 3
      /\ SubSeq(name, Len(name) - 2, Len(name)) = <<".", "m", "d">>
      /\ \A i \in DOMAIN Stem : Stem[i] \in Range(LowerChars) \cup DigitChars \cup {"-"}
      /\ \A i \in 1..(Len(Stem) - 1) : ~(Stem[i] = "-" /\ Stem[i + 1] = "-")
      /\ Len(Stem) <= 50
      /\ Stem # <<>> => Stem[1] # "-"
      /\ tweetData.title.v = ExampleTitle =>
           name = <<"b","u","i","l","d","i","n","g","-","r","a","g","-","s","y","s","t","e","m","s","-","c","l","a","u","d","e",".","m","d">>

\* C15 as stated: for every title the filename is ".md" after a stem of
\* lower-case letters, digits and single hyphens, at most 50 characters long,
\* with no leading and no trailing hyphen.
C15_NoTrailingHyphen ==
  pc = "log" =>
    /\ WellFormedName
    /\ Stem # <<>> => Stem[Len(Stem)] # "-"

\* C15 amended: as stated, but the stem has no trailing hyphen only when it is
\* shorter than 50 characters; a stem cut to 50 characters may end in a hyphen.
C15_TrailingHyphenOnlyWhenCut ==
  pc = "log" =>
    /\ WellFormedName
    /\ (Stem # <<>> /\ Len(Stem) < 50) => Stem[Len(Stem)] # "-"

\* a title whose sanitized form was cut to 50 characters, right after a hyphen
C15_Witness ==
  /\ pc = "log"
  /\ Len(Stem) = 50
  /\ Stem[50] = "-"

\* C16: in a live run, when an item whose record is a resource with confidence
\* >= the threshold gets through without a throw, the step that completes it
\* leaves a note of the record in the resources folder, the record's entry as
\* the newest entry of the log, the item's marker in the persisted store, and
\* the processed counter one higher.
C16_SuccessPath ==
  [][(/\ pc = "mark"
      /\ ~dryRun
      /\ tweetData.category = "resource"
      /\ tweetData.confidence >= ConfidenceThreshold
      /\ outcome'[idx] = "processed")
     => (/\ \E p \in DOMAIN notes' :
              /\ p[1] = resourcesDir
              /\ notes'[p].title = tweetData.title
              /\ notes'[p].screenshot = Current
         /\ logDoc'.exists
         /\ FirstSep(logDoc'.body) > 0
         /\ Len(logDoc'.body) > FirstSep(logDoc'.body)
         /\ logDoc'.body[FirstSep(logDoc'.body) + 1].k = "entry"
         /\ logDoc'.body[FirstSep(logDoc'.body) + 1].title = tweetData.title
         /\ logDoc'.body[FirstSep(logDoc'.body) + 1].screenshot = Current
         /\ Current \in Marked(persisted')
         /\ processed' = processed + 1)]_vars

\* a live run of the second process that completed the resource image, after
\* the log already had entries
C16_Witness ==
  /\ ~dryRun
  /\ runs = 2
  /\ \E i \in DOMAIN outcome :
       /\ outcome[i] = "processed"
       /\ screenshots[i] = FilePool[1]
  /\ logDoc.exists
  /\ Len(logDoc.body) > Len(LogHeader) + 1

\* C17: the set of identifiers in the persisted Processed-Set only grows: every
\* step, in a run or from one run to the next, leaves every persisted marker in
\* place, with the time it was set.
C17_MarkersNeverRemoved ==
  [][\A f \in Marked(persisted) :
       /\ f \in Marked(persisted')
       /\ persisted'.map[f] = persisted.map[f]]_vars

\* a persisted set with markers written by two different processes
C17_Witness ==
  /\ persisted.exists
  /\ \E f \in DOMAIN persisted.map : \E g \in DOMAIN persisted.map :
       persisted.map[f].processedAt < persisted.map[g].processedAt

\* C18: when the classifier's text is a valid record between a leading and a
\* trailing fence, with or without a language tag after the opening fence,
\* analyzeScreenshot strips both and returns the record; the item does not fail.
C18_FencedRecordReturned ==
  (pc # "analyze" /\ response.text \in FencedTexts) =>
    /\ pc = "research"
    /\ tweetData = response.record
    /\ outcome[1] = "pending"

\* the item in hand had its query generation throw
QueryFailed == \E i \in DOMAIN calls : calls[i] = <<"query", "error">>

\* C19: when the query generation throws, performAutoResearch returns null,
\* neither the search nor the filtering call is made for the item, and the
\* item goes on: it is formatted without an Auto-Research section and handed to
\* saveNote, logResult and markAsProcessed.
C19_QueryFailureSkipsEnrichmentOnly ==
  QueryFailed =>
    /\ pc \in {"generate", "save", "log", "mark"}
    /\ researchData.isNull
    /\ \A i \in DOMAIN calls : calls[i][1] \notin {"search", "filter"}
    /\ searchResults = <<>>
    /\ outcome[idx] = "pending"
    /\ pc \in {"save", "log", "mark"} => ~noteContent.research.present

\* an item whose query generation threw, saved and logged in a live run and
\* about to be marked
C19_Witness ==
  /\ QueryFailed
  /\ pc = "mark"
  /\ ~dryRun
  /\ Current \in noteWritten
  /\ Current \in logAppended

\* the search call that was made last came back without items
SearchCameBackEmpty ==
  /\ calls # <<>>
  /\ LastCall[1] = "search"
  /\ LastCall[2] \in {"unconfigured", "noitems", "neterror", "badjson"}

\* C20: when the search credential is missing, the search finds no items, or
\* the request or the parse of its answer fails, performWebSearch gives the
\* empty list, the filtering call is not made, and performAutoResearch returns
\* a bundle with the generated query and no results.
C20_EmptySearchIsNoError ==
  SearchCameBackEmpty =>
    /\ searchResults = <<>>
    /\ pc = "generate"
    /\ researchData = Bundle(searchQuery, <<>>)
    /\ \A i \in DOMAIN calls : calls[i][1] # "filter"

\* a search request that failed on the network
C20_Witness ==
  /\ pc = "generate"
  /\ calls # <<>>
  /\ LastCall = <<"search", "neterror">>
  /\ ~researchData.isNull

\* C21 as stated: every run, for a batch of any size, ends with the aggregate
\* summary; stated for a finite run: no process ends in the step it starts in,
\* before any summary.
C21_NoRunEndsWithoutSummary ==
  [][runs' # runs => pc' # "idle"]_vars

\* C21 amended: every run that discovers at least one item terminates: every
\* discovered item reaches Done or Failed, the run reaches the summary with
\* counts of processed and failed items that add up to the number discovered,
\* however many failed, and the process ends.  A run that discovers nothing
\* ends at once, without the summary.
C21_RunCompletes ==
  /\ (pc # "idle") ~>
       (/\ pc = "summary"
        /\ \A i \in DOMAIN outcome : outcome[i] # "pending"
        /\ processed + failed = Len(screenshots))
  /\ (pc = "summary") ~> (pc = "idle")

\* the summary of a run in which every item of a batch of two failed
C21_Witness ==
  /\ pc = "summary"
  /\ Len(screenshots) = 2
  /\ failed = 2
  /\ processed = 0

\* C22: within one run the classifier is called at most once per discovered
\* item: every call is for an item not classified before in the run, and a call
\* that fails marks the item Failed and moves the loop past it.
C22_NoRetry ==
  [][(pc = "analyze" /\ <<pc, idx, failed, classified>>' # <<pc, idx, failed, classified>>)
     => /\ Current \notin classified
        /\ classified' = classified \cup {Current}
        /\ (failed' # failed
              => /\ outcome'[idx] = "failed:analyze"
                 /\ failed' = failed + 1
                 /\ (idx' = idx + 1 \/ pc' = "summary"))]_vars

\* the second item is up for classification after the only call for the first
\* one failed
C22_Witness ==
  /\ pc = "analyze"
  /\ idx = 2
  /\ outcome[1] = "failed:analyze"
  /\ classified = {screenshots[1]}
  /\ failed = 1

\* C23: a step in which the classifier call fails or its response does not
\* parse counts the item as failed and changes nothing else: no enrichment
\* call was or is made for the item, no note is written, no folder created, no
\* log entry appended, and neither the in-memory nor the persisted set of
\* markers changes; and an item that failed at classification has no note, no
\* log entry and no marker from the run.
C23_ClassificationErrorChangesNothing ==
  /\ [][(pc = "analyze" /\ Current \notin classified /\ Current \in classified'
           /\ pc' # "research")
        => /\ failed' = failed + 1
           /\ processed' = processed
           /\ outcome'[idx] = "failed:analyze"
           /\ calls = <<>> /\ calls' = <<>>
           /\ UNCHANGED <<dirExists, dirs, notes, logDoc, persisted,
                          processedScreenshots, noteWritten, logAppended>>]_vars
  /\ [](\A i \in DOMAIN outcome :
          outcome[i] = "failed:analyze"
            => /\ screenshots[i] \notin noteWritten \cup logAppended
               /\ screenshots[i] \notin DOMAIN processedScreenshots
               /\ screenshots[i] \notin Marked(persisted))

\* the first item was marked and the second one failed at classification: the
\* run is at its summary with one marker in memory and in the document
C23_Witness ==
  /\ pc = "summary"
  /\ Len(screenshots) = 2
  /\ outcome[1] = "processed"
  /\ outcome[2] = "failed:analyze"
  /\ ~dryRun
  /\ DOMAIN processedScreenshots = {screenshots[1]}
  /\ Marked(persisted) = {screenshots[1]}

\* C24: the external calls made for the item at hand are an initial part of
\* classify, query generation, web search, filtering, each at most once; query
\* generation is pending only after a successful classification, the search
\* only after a query was produced, filtering only after a search that
\* returned a non-empty list; with enrichment disabled no enrichment call is
\* made and the bundle is absent.
C24_CallOrder ==
  LET order == <<"classify", "query", "search", "filter">>
      made == [i \in DOMAIN calls |-> calls[i][1]]
  IN  /\ Len(calls) <= 4
      /\ made = SubSeq(order, 1, Len(calls))
      /\ pc = "research" => (tweetData # Undef /\ Len(calls) = 1)
      /\ pc = "search" =>
           (enableAutoResearch /\ Len(calls) = 2 /\ calls[2][2] = "text")
      /\ pc = "filter" =>
           (enableAutoResearch /\ Len(calls) = 3 /\ Len(searchResults) > 0)
      /\ (~enableAutoResearch /\ pc \in {"generate", "save", "log", "mark"}) =>
           (Len(calls) = 1 /\ researchData = NullBundle)

\* all four calls were made, in order, for an item whose note is due
C24_Witness ==
  /\ pc = "generate"
  /\ enableAutoResearch
  /\ Len(calls) = 4
  /\ calls[4][1] = "filter"
  /\ Len(researchData.results) > 0

\* C25: items are handled strictly one after the other: while a run is under
\* way every item before the one at hand has reached Done or Failed, every
\* item after it is untouched (no classifier call, no note, no log entry, no
\* marker), and so at most one item is under way.
C25_StrictlySequential ==
  pc # "idle" =>
    /\ \A i \in DOMAIN screenshots :
         /\ i < idx => outcome[i] # "pending"
         /\ i > idx =>
              /\ outcome[i] = "pending"
              /\ screenshots[i] \notin classified \cup noteWritten \cup logAppended
              /\ screenshots[i] \notin DOMAIN processedScreenshots
              /\ screenshots[i] \notin Marked(persisted)
    /\ Cardinality({i \in DOMAIN screenshots :
                      outcome[i] = "pending" /\ screenshots[i] \in classified}) <= 1

\* the first item of two has its note and its log entry and waits for its
\* marker; the second one has not been touched
C25_Witness ==
  /\ pc = "mark"
  /\ idx = 1
  /\ Len(screenshots) = 2
  /\ screenshots[1] \in noteWritten \cap logAppended
  /\ outcome = <<"pending", "pending">>

\* C26: in a live run the full in-memory mapping is written back each time an
\* item reaches Logged&Marked, so between two iterations (and at the summary)
\* the persisted set of markers equals the in-memory one, and every item that
\* completed has its marker in the persisted document.
C26_PersistedEqualsMemory ==
  (~dryRun /\ pc \in {"analyze", "summary"}) =>
    /\ LoadProcessed(persisted) = processedScreenshots
    /\ \A i \in DOMAIN outcome :
         outcome[i] = "processed" => screenshots[i] \in Marked(persisted)

\* C27: a run that finds the watched folder missing creates it, gets the
\* empty sequence from the scan and ends at once: no item is classified,
\* nothing is counted as processed or failed, and no note, log or marker
\* document is written.
C27_ScannerBootstraps ==
  [][(pc = "idle" /\ runs' # runs /\ ~dirExists)
     => /\ dirExists'
        /\ screenshots' = <<>>
        /\ pc' = "idle"
        /\ processed' = 0 /\ failed' = 0
        /\ classified' = {} /\ calls' = <<>>
        /\ UNCHANGED <<listing, dirs, notes, logDoc, persisted>>]_vars

\* after the first run over a vault without the watched folder: the folder is
\* there, nothing was found and nothing was counted
C27_Witness ==
  /\ runs = 1
  /\ pc = "idle"
  /\ dirExists
  /\ listing = <<>>
  /\ screenshots = <<>>
  /\ failed = 0
  /\ processed = 0
  /\ notes = EmptyMap

\* C28: the scan of an existing folder returns exactly the entries whose name
\* ends in .png, .jpg or .jpeg, whatever the case of the letters, and that
\* have no marker: every element of the result is such an entry, and the k-th
\* element is the k-th such entry of the listing, so none is left out, none
\* comes twice and the order is that of the listing.
C28_ScanIsExact ==
  [][(runs' # runs /\ dirExists)
     => LET ext(f, n) == ToLowerCase(SubSeq(f, Len(f) - n + 1, Len(f)))
            wanted(f) ==
              /\ \/ Len(f) >= 4 /\ ext(f, 4) \in {<<".","p","n","g">>, <<".","j","p","g">>}
                 \/ Len(f) >= 5 /\ ext(f, 5) = <<".","j","p","e","g">>
              /\ f \notin Marked(persisted)
            at == {i \in DOMAIN listing : wanted(listing[i])}
            nth(k) == CHOOSE p \in at : Cardinality({q \in at : q < p}) = k - 1
        IN  /\ Len(screenshots') = Cardinality(at)
            /\ \A k \in DOMAIN screenshots' : screenshots'[k] = listing[nth(k)]]_vars

\* a scan returned the upper-case .JPG entry after the .jpeg entry and left out
\* the marked .Png entry and the entries without an image extension
C28_Witness ==
  /\ runs = 1
  /\ Len(listing) = 7
  /\ Marked(persisted) = {ScanPool[1]}
  /\ screenshots = <<ScanPool[2], ScanPool[5], ScanPool[7]>>

\* C29: a note write to a path at which a note already is replaces that note
\* and raises no error, so a collision of file names is not detected; every
\* item a live run counted as processed has had its note written, its log
\* entry appended and its marker persisted, whether or not its note is still
\* in the vault.
C29_CollisionOverwrites ==
  /\ [][(/\ pc = "save" /\ pc' = "log" /\ ~dryRun
         /\ <<TargetDir(tweetData), NoteFilename(tweetData.title.v)>> \in DOMAIN notes)
        => LET path == <<TargetDir(tweetData), NoteFilename(tweetData.title.v)>>
           IN  /\ notes' = [notes EXCEPT ![path] = noteContent]
               /\ failed' = failed
               /\ noteWritten' = noteWritten \cup {Current}]_vars
  /\ [](\A i \in DOMAIN outcome :
          (outcome[i] = "processed" /\ ~dryRun)
            => screenshots[i] \in (noteWritten \cap logAppended) \cap Marked(persisted))

\* two items of one live run were processed, logged and marked, and the vault
\* holds one note, that of the second item
C29_Witness ==
  /\ pc = "summary"
  /\ ~dryRun
  /\ processed = 2
  /\ failed = 0
  /\ Cardinality(DOMAIN notes) = 1
  /\ \A p \in DOMAIN notes : notes[p].screenshot = screenshots[2]
  /\ {screenshots[1], screenshots[2]} \subseteq logAppended \cap Marked(persisted)

\* C30: the note that generateNote returns has the engagement line exactly
\* when the record carries engagement data: the line is left out when likes,
\* retweets and replies are all null, and is there when any of them is
\* present, a count of 0 included.
C30_EngagementLineIffAnyCount ==
  (pc = "save" /\ noteContent # Undef) =>
    (noteContent.engagementLine <=>
       \/ tweetData.engagement.likes # NullNum
       \/ tweetData.engagement.retweets # NullNum
       \/ tweetData.engagement.replies # NullNum)

\* C31 as stated: when the web search fails on the network or on an unparsable
\* answer, the enrichment result for the item is the null bundle.
C31_SearchFailureGivesNull ==
  (pc = "generate" /\ calls # <<>>
     /\ LastCall \in {<<"search", "neterror">>, <<"search", "badjson">>})
    => researchData.isNull

\* C31 amended: when the web search fails on the network or on an unparsable
\* answer, the enrichment result for the item is a bundle with the generated
\* query and an empty result list, not the null bundle of a query-generation
\* failure; the item does not fail, and its note has no Auto-Research section,
\* as with the null bundle.
C31_SearchFailureGivesEmptyBundle ==
  (calls # <<>> /\ LastCall \in {<<"search", "neterror">>, <<"search", "badjson">>})
    => /\ pc \in {"generate", "save", "log", "mark"}
       /\ researchData = Bundle(searchQuery, <<>>)
       /\ outcome[idx] = "pending"
       /\ pc \in {"save", "log", "mark"} => ~noteContent.research.present

\* an item whose search answer did not parse, saved and logged in a live run
\* and about to be marked
C31_Witness ==
  /\ pc = "mark"
  /\ ~dryRun
  /\ calls # <<>>
  /\ LastCall = <<"search", "badjson">>
  /\ ~researchData.isNull
  /\ Current \in noteWritten \cap logAppended

\* C32: every result rendered in the Auto-Research section is labelled High
\* when its relevance is at least 0.8, Medium when it is at least 0.6 and
\* below 0.8, and Low otherwise, whatever threshold the filter applied: a
\* result of the unfiltered passthrough (relevance 0.5) is labelled Low.
C32_RelevanceTierLabel ==
  (pc \in {"save", "log", "mark"} /\ noteContent.research.present) =>
    /\ Len(noteContent.research.items) = Len(researchData.results)
    /\ \A i \in DOMAIN researchData.results :
         LET rel == researchData.results[i].relevance
             label == noteContent.research.items[i].label
         IN  /\ label \in {"High", "Medium", "Low"}
             /\ label = "High" <=> rel >= 80
             /\ label = "Medium" <=> (rel >= 60 /\ rel < 80)
             /\ rel = FallbackRelevance => label = "Low"

\* a note with a result of relevance 0.8 labelled High and one of relevance
\* 0.5 labelled Low
C32_Witness ==
  /\ pc = "save"
  /\ noteContent.research.present
  /\ Len(researchData.results) = 2
  /\ researchData.results[1].relevance = 80
  /\ researchData.results[2].relevance = FallbackRelevance
  /\ noteContent.research.items[1].label = "High"
  /\ noteContent.research.items[2].label = "Low"

\* C33: the captured items are read-only to the pipeline: no step of a run,
\* live or dry, succeeding or failing, changes the entries of the watched
\* folder, and no note is written into that folder, nor is it a note folder.
C33_CapturedItemsReadOnly ==
  /\ [][(pc # "idle" \/ runs' # runs) => listing' = listing]_vars
  /\ [](/\ \A p \in DOMAIN notes : p[1] # screenshotsDir
        /\ screenshotsDir \notin dirs)

\* the summary of a live run that saved, logged and marked the first image and
\* failed on the second one; the folder lists what it listed
C33_Witness ==
  /\ pc = "summary"
  /\ ~dryRun
  /\ listing = FilePool
  /\ Len(outcome) = 2
  /\ outcome[1] = "processed"
  /\ IsFailed(outcome[2])
  /\ notes # EmptyMap

\* C34: every discovered item is counted exactly once: throughout a run the
\* processed counter is the number of items that reached Done and the failed
\* counter the number of items that failed, and at the end of the run, live or
\* dry, no item is left uncounted, so processed + failed is the number of
\* items the scan discovered.
C34_CounterConservation ==
  pc # "idle" =>
    /\ processed = Cardinality({i \in DOMAIN outcome : outcome[i] = "processed"})
    /\ failed = Cardinality({i \in DOMAIN outcome : IsFailed(outcome[i])})
    /\ Cardinality({i \in DOMAIN outcome : outcome[i] = "pending"})
         = Len(screenshots) - processed - failed
    /\ pc = "summary" =>
         /\ processed + failed = Len(screenshots)
         /\ \A i \in DOMAIN outcome : outcome[i] # "pending"

\* the summary of a dry run that counted one item as processed and one as failed
C34_Witness ==
  /\ pc = "summary"
  /\ dryRun
  /\ Len(screenshots) = 2
  /\ processed = 1
  /\ failed = 1

\* C35: at every point of a run an item that was counted as failed has no
\* marker in the in-memory set and none in the persisted document, also when
\* the failure was the write of the marker document itself.
C35_FailedItemsCarryNoMarker ==
  pc # "idle" =>
    \A i \in DOMAIN outcome :
      IsFailed(outcome[i]) =>
        /\ screenshots[i] \notin DOMAIN processedScreenshots
        /\ screenshots[i] \notin Marked(persisted)

\* C36: every result filterResearchResults returns is one of the raw results,
\* with that result's title, URL and snippet; no raw result is returned more
\* than once, and the list returned is never longer than the raw list,
\* whatever indexes the filtering answer names.
C36_FilteredComeFromRaw ==
  (pc = "generate" /\ calls # <<>> /\ LastCall[1] = "filter" /\ ~researchData.isNull) =>
    LET out == researchData.results
    IN  /\ Len(out) <= Len(searchResults)
        /\ \E f \in [DOMAIN out -> DOMAIN searchResults] :
             /\ \A i \in DOMAIN out : \A j \in DOMAIN out : i # j => f[i] # f[j]
             /\ \A i \in DOMAIN out :
                  /\ out[i].title = searchResults[f[i]].title
                  /\ out[i].url = searchResults[f[i]].url
                  /\ out[i].snippet = searchResults[f[i]].snippet

\* C37: the routing decision is defined for every record: with confidence at
\* or above the threshold every category other than resource, a value outside
\* the enum or a missing one included, is routed to the projects folder, and
\* no save that goes through puts such a note anywhere else.
C37_UnexpectedCategoriesToProjects ==
  /\ [](pc = "save" =>
          /\ TargetDir(tweetData) \in AllDirs
          /\ (tweetData.confidence >= ConfidenceThreshold /\ tweetData.category # "resource")
               => TargetDir(tweetData) = projectsDir)
  /\ [][(/\ pc = "save" /\ pc' \in {"log", "mark"}
         /\ tweetData.confidence >= ConfidenceThreshold
         /\ tweetData.category # "resource")
        => /\ projectsDir \in dirs'
           /\ failed' = failed
           /\ ~dryRun => (DOMAIN notes' = {<<projectsDir, NoteFilename(tweetData.title.v)>>}
                            /\ result'.path[1] = projectsDir)]_vars

\* a note for a record without a category went to the projects folder
C37_Witness ==
  /\ pc = "log"
  /\ tweetData.category = UndefStr
  /\ tweetData.confidence = 70
  /\ result.path[1] = projectsDir
  /\ \E p \in DOMAIN notes : p[1] = projectsDir

\* C38: a dry run does not consume items: the live run started after a dry run
\* over the unchanged folder is offered exactly the items the dry run was
\* offered, the dry run leaves no marker document, and the live run starts
\* with none of the markers the dry run recorded in memory.
C38_DryRunConsumesNothing ==
  /\ [][(runs = 1 /\ runs' = 2)
        => /\ screenshots' = screenshots
           /\ \A i \in DOMAIN screenshots :
                screenshots[i] \notin DOMAIN processedScreenshots']_vars
  /\ [](runs = 1 => persisted = NoStore)

\* the live run started after the dry run is offered both images of the folder
\* and is about to mark the second one
C38_Witness ==
  /\ runs = 2
  /\ ~dryRun
  /\ Len(screenshots) = 2
  /\ idx = 2
  /\ pc = "mark"
  /\ outcome[1] = "processed"

\* the number of entries the log document holds for an image
LogEntriesFor(doc, f) ==
  IF doc.exists
  THEN Cardinality({i \in DOMAIN doc.body :
                      doc.body[i].k = "entry" /\ doc.body[i].screenshot = f})
  ELSE 0

\* C39 as stated: with two processes interleaved on one vault, every item is
\* classified and logged at most once overall, and no marker persisted by one
\* process is lost when the other one persists its mapping.
C39_OverlapIsSafe ==
  [][/\ \A f \in Range(FilePool) :
          /\ ~(f \in classified' /\ f \in other'.seen)
          /\ LogEntriesFor(logDoc', f) <= 1
     /\ Marked(persisted) \subseteq Marked(persisted')]_vars

\* C39 amended: overlapping processes are not kept apart: each process run
\* classifies and logs an item at most once, so an item is logged at most once
\* per process run that was started, and every write of the marker document
\* replaces it by the in-memory mapping of the process that writes, whatever
\* markers the other process persisted since that process loaded the document.
C39_OverlapPerProcessOnly ==
  /\ [](\A f \in Range(FilePool) :
          LogEntriesFor(logDoc, f) <= runs + (IF other.pc = "off" THEN 0 ELSE 1))
  /\ [][/\ (pc = "analyze" /\ classified' # classified /\ classified' # {})
             => Current \notin classified
        /\ (other.pc = "analyze" /\ other'.seen # other.seen)
             => OtherItem \notin other.seen
        /\ persisted' # persisted
             => \/ (pc = "mark" /\ LoadProcessed(persisted') = processedScreenshots')
                \/ (other.pc = "mark" /\ LoadProcessed(persisted') = other'.mem)]_vars

\* an image was logged by both processes, and the marker the first process
\* had persisted for another image is gone from the document
C39_Witness ==
  /\ \E f \in Range(FilePool) : LogEntriesFor(logDoc, f) = 2
  /\ \E g \in committed : g \notin Marked(persisted)
  /\ other.pc # "off"
====
